---------------------------- MODULE Spec2Model ----------------------------
(***************************************************************************)
(* Model of the s3-client library (package s3, v3 API):                    *)
(*   - the directory batch operations GetDirectory, GetDirectoryInfos and  *)
(*     DownloadDirectory (one goroutine per listed key, WaitGroup, mutex,  *)
(*     error channel);                                                     *)
(*   - the integrity handling of UploadFile, GetFile and GetFileInfo       *)
(*     (CRC32C / MD5 checksums carried in reserved user-metadata keys);    *)
(*   - the other single-object operations (RemoveFile, File.Bytes), the    *)
(*     validation of the connection details and AddLifeCycleRule.          *)
(***************************************************************************)
EXTENDS Integers, Sequences, FiniteSets, TLC

VARIABLES
    (* --- directory batch call (one call of one of the three operations) *)
    op,         \* which operation is running, or "none" before the call
    pc,         \* position of the calling goroutine
    objectCh,   \* items the listing channel still delivers
    wg,         \* sync.WaitGroup counter
    mtx,        \* sync.Mutex: key of the unit holding it, or NoHolder
    units,      \* position of the goroutine spawned for each key
    tmp,        \* per unit: slice value read by append before it is stored
    result,     \* the shared result slice (keys stand for File / *FileInfo)
    errCh,      \* errors buffered in the error channel (keys stand for errors)
    ret,        \* what the call returned to its caller
    listed,     \* the keys the listing delivers to the call
    calls,      \* per key: per-key operations invoked for it that have returned
    cancelled,  \* whether the caller's context has been cancelled
    (* --- the bucket and the single-object calls *)
    store,      \* the bucket: path -> stored object, or NoObject
    res,        \* the call that has returned last and its result
    (* --- a downloaded File in the hands of its caller *)
    opened,     \* the File a GetFile call returned, or NoFile
    (* --- the bucket's administration *)
    lifecycle,  \* the bucket's lifecycle configuration: its rules
    (* --- the client's construction and shutdown *)
    health      \* the client built by NewClient and its health-check task

callVars == <<listed, calls, cancelled>>

batchVars == <<op, pc, objectCh, wg, mtx, units, tmp, result, errCh, ret, callVars>>

integrityVars == <<store, res>>

otherVars == <<opened, lifecycle, health>>

vars == <<batchVars, integrityVars, otherVars>>

-----------------------------------------------------------------------------
(* Bounds *)

\* Keys a listing delivers at most.
MaxKeys == 3

\* Length of an object's content at most.
MaxLen == 1

\* Options passed to NewClient at most, and calls of Close at most.
MaxOptions == 2

MaxCloses == 2

\* The bytes contents are made of.
Alphabet == {97, 98}

-----------------------------------------------------------------------------
(* 32-bit arithmetic, encoding/hex, hash/crc32, crypto/md5 *)

(* 32-bit words are pairs <<hi, lo>> of 16-bit halves (TLC's integers stop
   at 2^31 - 1). *)

Word(hi, lo) == <<hi, lo>>

RECURSIVE BitOp(_, _, _, _)
\* Bitwise operation on n-bit numbers; tt is its truth table
\* <<f(0,0), f(0,1), f(1,0), f(1,1)>>.
BitOp(tt, a, b, n) ==
    IF n = 0 THEN 0
    ELSE tt[2 * (a % 2) + (b % 2) + 1] + (2 * BitOp(tt, a \div 2, b \div 2, n - 1))

(* The operators below bind their operands once (x \in {a}): an operand is
   then evaluated one time, however often the result refers to it. *)

Xor(a, b) ==
    CHOOSE w \in { <<BitOp(<<0, 1, 1, 0>>, x[1], y[1], 16), BitOp(<<0, 1, 1, 0>>, x[2], y[2], 16)>> :
                      x \in {a}, y \in {b} } : TRUE

And(a, b) ==
    CHOOSE w \in { <<BitOp(<<0, 0, 0, 1>>, x[1], y[1], 16), BitOp(<<0, 0, 0, 1>>, x[2], y[2], 16)>> :
                      x \in {a}, y \in {b} } : TRUE

Or(a, b) ==
    CHOOSE w \in { <<BitOp(<<0, 1, 1, 1>>, x[1], y[1], 16), BitOp(<<0, 1, 1, 1>>, x[2], y[2], 16)>> :
                      x \in {a}, y \in {b} } : TRUE

Not(a) == CHOOSE w \in { <<65535 - x[1], 65535 - x[2]>> : x \in {a} } : TRUE

ShiftRight1(a) ==
    CHOOSE w \in { <<x[1] \div 2, (x[2] \div 2) + 32768 * (x[1] % 2)>> : x \in {a} } : TRUE

\* Rotation to the left by s bits, 0 <= s < 32.
RotateLeft(a, s) ==
    CHOOSE w \in { << ((hi * (2 ^ (s % 16))) % 65536) + (lo \div (2 ^ (16 - (s % 16)))),
                      ((lo * (2 ^ (s % 16))) % 65536) + (hi \div (2 ^ (16 - (s % 16)))) >> :
                      hi \in {IF s < 16 THEN a[1] ELSE a[2]},
                      lo \in {IF s < 16 THEN a[2] ELSE a[1]} } : TRUE

\* a + b modulo 2^32.
Add(a, b) ==
    CHOOSE w \in { << (x[1] + y[1] + ((x[2] + y[2]) \div 65536)) % 65536, (x[2] + y[2]) % 65536 >> :
                      x \in {a}, y \in {b} } : TRUE

\* The bytes of a word, most significant first / least significant first.
BigEndian(w) ==
    CHOOSE s \in { << x[1] \div 256, x[1] % 256, x[2] \div 256, x[2] % 256 >> : x \in {w} } : TRUE

LittleEndian(w) ==
    CHOOSE s \in { << x[2] % 256, x[2] \div 256, x[1] % 256, x[1] \div 256 >> : x \in {w} } : TRUE

(* encoding/hex *)

HexDigit(d) ==
    CASE d = 0 -> "0" [] d = 1 -> "1" [] d = 2 -> "2" [] d = 3 -> "3"
      [] d = 4 -> "4" [] d = 5 -> "5" [] d = 6 -> "6" [] d = 7 -> "7"
      [] d = 8 -> "8" [] d = 9 -> "9" [] d = 10 -> "a" [] d = 11 -> "b"
      [] d = 12 -> "c" [] d = 13 -> "d" [] d = 14 -> "e" [] d = 15 -> "f"

RECURSIVE EncodeToString(_)
\* hex.EncodeToString: two lowercase hexadecimal digits per byte.
EncodeToString(bytes) ==
    CHOOSE s \in { IF b = <<>> THEN ""
                   ELSE (HexDigit(Head(b) \div 16) \o HexDigit(Head(b) % 16))
                            \o EncodeToString(Tail(b)) : b \in {bytes} } : TRUE

\* The same digits in upper case (strings.ToUpper of a hex string).
HexDigitUpper(d) ==
    CASE d = 10 -> "A" [] d = 11 -> "B" [] d = 12 -> "C" [] d = 13 -> "D"
      [] d = 14 -> "E" [] d = 15 -> "F" [] OTHER -> HexDigit(d)

RECURSIVE EncodeToUpper(_)
EncodeToUpper(bytes) ==
    CHOOSE s \in { IF b = <<>> THEN ""
                   ELSE (HexDigitUpper(Head(b) \div 16) \o HexDigitUpper(Head(b) % 16))
                            \o EncodeToUpper(Tail(b)) : b \in {bytes} } : TRUE

(* hash/crc32 with the Castagnoli polynomial *)

\* crc32.Castagnoli = 0x82f63b78
Castagnoli == Word(33526, 15224)

AllOnes == Word(65535, 65535)

RECURSIVE CrcShift(_, _)
\* n steps of the bitwise (reflected) CRC division.
CrcShift(crc, n) ==
    IF n = 0 THEN crc
    ELSE CHOOSE w \in { CrcShift(IF x[2] % 2 = 1 THEN Xor(ShiftRight1(x), Castagnoli)
                                                 ELSE ShiftRight1(x), n - 1) :
                           x \in {crc} } : TRUE

RECURSIVE CrcUpdate(_, _)
CrcUpdate(crc, data) ==
    IF data = <<>> THEN crc
    ELSE CrcUpdate(CrcShift(Xor(crc, Word(0, Head(data))), 8), Tail(data))

\* hash.Sum(nil) of crc32.New(crc32.MakeTable(crc32.Castagnoli)) after
\* writing data: the checksum, big-endian.
Crc32cSum(data) == BigEndian(Xor(CrcUpdate(AllOnes, data), AllOnes))

(* crypto/md5, for messages of at most 55 bytes (one 64-byte block) *)

MD5K == <<
    <<55146, 42104>>, <<59591, 46934>>, <<9248, 28891>>, <<49597, 52974>>,
    <<62844, 4015>>, <<18311, 50730>>, <<43056, 17939>>, <<64838, 38145>>,
    <<27008, 39128>>, <<35652, 63407>>, <<65535, 23473>>, <<35164, 55230>>,
    <<27536, 4386>>, <<64920, 29075>>, <<42617, 17294>>, <<18868, 2081>>,
    <<63006, 9570>>, <<49216, 45888>>, <<9822, 23121>>, <<59830, 51114>>,
    <<54831, 4189>>, <<580, 5203>>, <<55457, 59009>>, <<59347, 64456>>,
    <<8673, 52710>>, <<49975, 2006>>, <<62677, 3463>>, <<17754, 5357>>,
    <<43491, 59653>>, <<64751, 41976>>, <<26479, 729>>, <<36138, 19594>>,
    <<65530, 14658>>, <<34673, 63105>>, <<28061, 24866>>, <<64997, 14348>>,
    <<42174, 59972>>, <<19422, 53161>>, <<63163, 19296>>, <<48831, 48240>>,
    <<10395, 32454>>, <<60065, 10234>>, <<54511, 12421>>, <<1160, 7429>>,
    <<55764, 53305>>, <<59099, 39397>>, <<8098, 31992>>, <<50348, 22117>>,
    <<62505, 8772>>, <<17194, 65431>>, <<43924, 9127>>, <<64659, 41017>>,
    <<25947, 22979>>, <<36620, 52370>>, <<65519, 62589>>, <<34180, 24017>>,
    <<28584, 32335>>, <<65068, 59104>>, <<41729, 17172>>, <<19976, 4513>>,
    <<63315, 32386>>, <<48442, 62005>>, <<10967, 53947>>, <<60294, 54161>> >>

MD5S == <<
    7, 12, 17, 22, 7, 12, 17, 22, 7, 12, 17, 22, 7, 12, 17, 22,
    5, 9, 14, 20, 5, 9, 14, 20, 5, 9, 14, 20, 5, 9, 14, 20,
    4, 11, 16, 23, 4, 11, 16, 23, 4, 11, 16, 23, 4, 11, 16, 23,
    6, 10, 15, 21, 6, 10, 15, 21, 6, 10, 15, 21, 6, 10, 15, 21 >>

\* The padded block as 16 little-endian words: data, 0x80, zeros, bit length.
MD5Block(data) ==
    LET byte(p) == IF p <= Len(data) THEN data[p]
                   ELSE IF p = Len(data) + 1 THEN 128
                   ELSE IF p = 57 THEN (8 * Len(data)) % 256
                   ELSE IF p = 58 THEN (8 * Len(data)) \div 256
                   ELSE 0
    IN  [j \in 0..15 |->
            Word(byte(4 * j + 3) + 256 * byte(4 * j + 4), byte(4 * j + 1) + 256 * byte(4 * j + 2))]

MD5Init == << Word(26437, 8961), Word(61389, 43913), Word(39098, 56574), Word(4146, 21622) >>

\* Round i (0..63) on state st = <<a, b, c, d>> with message block m.
MD5Round(st, m, i) ==
    LET a == st[1]
        b == st[2]
        c == st[3]
        d == st[4]
        f == IF i < 16 THEN Or(And(b, c), And(Not(b), d))
             ELSE IF i < 32 THEN Or(And(d, b), And(Not(d), c))
             ELSE IF i < 48 THEN Xor(b, Xor(c, d))
             ELSE Xor(c, Or(b, Not(d)))
        g == IF i < 16 THEN i
             ELSE IF i < 32 THEN (5 * i + 1) % 16
             ELSE IF i < 48 THEN (3 * i + 5) % 16
             ELSE (7 * i) % 16
        sum == Add(Add(a, f), Add(MD5K[i + 1], m[g]))
    IN  <<d, Add(b, RotateLeft(sum, MD5S[i + 1])), b, c>>

RECURSIVE MD5Rounds(_, _, _, _)
\* Rounds from..to-1 in order on state st with message block m.  The range is
\* halved, and the first half's result is bound before the second half
\* starts, which keeps the evaluation shallow.
MD5Rounds(st, m, from, to) ==
    CHOOSE h \in { IF to = from + 1 THEN MD5Round(s, m, from)
                   ELSE CHOOSE r \in { MD5Rounds(half, m, (from + to) \div 2, to) :
                                         half \in {MD5Rounds(s, m, from, (from + to) \div 2)} } : TRUE :
                   s \in {st} } : TRUE

\* hash.Sum(nil) of md5.New() after writing data: 16 bytes.
MD5Sum(data) ==
    CHOOSE s \in { LittleEndian(Add(MD5Init[1], h[1])) \o LittleEndian(Add(MD5Init[2], h[2]))
                    \o LittleEndian(Add(MD5Init[3], h[3])) \o LittleEndian(Add(MD5Init[4], h[4])) :
                   h \in {MD5Rounds(MD5Init, m, 0, 64) : m \in {MD5Block(data)}} } : TRUE

-----------------------------------------------------------------------------
(* Checksum tables: the digests of every byte sequence the model handles *)

\* Byte sequences of length at most n over Alphabet.
RECURSIVE SeqsUpTo(_)
SeqsUpTo(n) ==
    IF n = 0 THEN {<<>>}
    ELSE SeqsUpTo(n - 1) \cup
            {Append(s, b) : s \in {t \in SeqsUpTo(n - 1) : Len(t) = n - 1}, b \in Alphabet}

Contents == SeqsUpTo(MaxLen)

\* The content "asdfqweryxcv" of the checksum tests.
TestContent == <<97, 115, 100, 102, 113, 119, 101, 114, 121, 120, 99, 118>>

\* The byte sequences a digest is taken of.
Hashed == Contents \cup {TestContent}

CRC32CHex == [d \in Hashed |-> EncodeToString(Crc32cSum(d))]

MD5Hex == [d \in Hashed |-> EncodeToString(MD5Sum(d))]

CRC32CUpper == [d \in Contents |-> EncodeToUpper(Crc32cSum(d))]

MD5Upper == [d \in Contents |-> EncodeToUpper(MD5Sum(d))]

-----------------------------------------------------------------------------
(* Streams (io.ReadSeeker) *)

\* A stream: its bytes, its read position, and whether its Seek and Read
\* calls fail.
Stream(data, pos, broken) == [data |-> data, pos |-> pos, broken |-> broken]

\* What reading the stream to EOF delivers.
Remaining(obj) == SubSeq(obj.data, obj.pos + 1, Len(obj.data))

\* obj.Seek(offset, io.SeekStart): the new offset from the start, and the
\* stream positioned there.
Seek(obj, offset) == [off |-> offset, obj |-> [obj EXCEPT !.pos = offset]]

\* io.Copy(hash, data): the stream read to EOF.
ReadAll(obj) == [bytes |-> Remaining(obj), obj |-> [obj EXCEPT !.pos = Len(obj.data)]]

-----------------------------------------------------------------------------
(* Checksums (the integrity source file) *)

keyCR32CChecksum == "Checksum-Cr32c"

keyMD5Checksum == "Checksum-Md5"

ReservedKeys == {keyCR32CChecksum, keyMD5Checksum}

\* A variant of GenerateCheckSumCRC32C that digests all the bytes behind the
\* reader, also those already read; the determinism property C21 does not
\* hold of it.
GenerateCheckSumCRC32CWholeData(data) ==
    IF data.broken THEN [sum |-> "", err |-> "io", obj |-> data]
    ELSE [sum |-> CRC32CHex[data.data], err |-> "nil", obj |-> ReadAll(data).obj]

\* GenerateCheckSumCRC32C(data io.Reader): the hex CRC32C of what the reader
\* still delivers.
GenerateCheckSumCRC32C(data) ==
    IF data.broken THEN [sum |-> "", err |-> "io", obj |-> data]
    ELSE [sum |-> CRC32CHex[ReadAll(data).bytes], err |-> "nil", obj |-> ReadAll(data).obj]

\* GenerateCheckSumMD5(data io.Reader).
GenerateCheckSumMD5(data) ==
    IF data.broken THEN [sum |-> "", err |-> "io", obj |-> data]
    ELSE [sum |-> MD5Hex[ReadAll(data).bytes], err |-> "nil", obj |-> ReadAll(data).obj]

\* A variant of compareChecksum that accepts every expected value; the
\* mismatch property C5 does not hold of it.
compareChecksumLenient(c, expected) == "nil"

\* checksum.compareChecksum(expected): nil or ErrChecksumMismatch.
compareChecksum(c, expected) ==
    IF expected # "" /\ expected # c THEN "ErrChecksumMismatch" ELSE "nil"

\* A variant of getCheckSumCRC32C without the two seeks: it digests from the
\* stream's current position on; the round trip C9 does not hold of it.
getCheckSumCRC32CNoSeek(obj) ==
    IF obj.broken THEN [sum |-> "", err |-> "io", obj |-> obj]
    ELSE GenerateCheckSumCRC32C(obj)

\* getCheckSumCRC32C(obj io.ReadSeeker): seek to the start, digest to EOF,
\* seek to the offset the first Seek returned.
getCheckSumCRC32C(obj) ==
    LET rewind(first, gen) ==
            [sum |-> gen.sum, err |-> "nil", obj |-> Seek(gen.obj, first.off).obj]
    IN  IF obj.broken THEN [sum |-> "", err |-> "io", obj |-> obj]
        ELSE rewind(Seek(obj, 0), GenerateCheckSumCRC32C(Seek(obj, 0).obj))

\* A variant of getCheckSumMD5 that reports no error for a stream that fails;
\* C28 does not hold of it.
getCheckSumMD5Lenient(obj) ==
    [sum |-> "", err |-> "nil", obj |-> obj]

\* A variant of getCheckSumMD5 without the second seek: it leaves the stream
\* at its end; C34 does not hold of it.
getCheckSumMD5NoRewind(obj) ==
    IF obj.broken THEN [sum |-> "", err |-> "io", obj |-> obj]
    ELSE GenerateCheckSumMD5(Seek(obj, 0).obj)

\* getCheckSumMD5(obj io.ReadSeeker).
getCheckSumMD5(obj) ==
    LET rewind(first, gen) ==
            [sum |-> gen.sum, err |-> "nil", obj |-> Seek(gen.obj, first.off).obj]
    IN  IF obj.broken THEN [sum |-> "", err |-> "io", obj |-> obj]
        ELSE rewind(Seek(obj, 0), GenerateCheckSumMD5(Seek(obj, 0).obj))

-----------------------------------------------------------------------------
(* Go maps (map[string]string) as functions *)

\* m[k] of a Go map: the zero value "" for a missing key.
MapGet(m, k) == IF k \in DOMAIN m THEN m[k] ELSE ""

\* delete(m, k)
MapDelete(m, k) == [x \in (DOMAIN m) \ {k} |-> m[x]]

\* m[k] = v
MapSet(m, k, v) == [x \in (DOMAIN m) \cup {k} |-> IF x = k THEN v ELSE m[x]]

\* for k, v := range src { m[k] = v }
MapMerge(m, src) ==
    [x \in (DOMAIN m) \cup (DOMAIN src) |-> IF x \in DOMAIN src THEN src[x] ELSE m[x]]

EmptyMap == <<>>

-----------------------------------------------------------------------------
(* GetFile / GetFileInfo integrity handling *)

NoContent == [none |-> "content"]

\* handleGetFileIntegritySettings: for each kind enabled on the client, take
\* the embedded checksum, or compute it from the content when none is
\* embedded, and put it into the FileInfo.
handleGetFileIntegritySettings(c, params) ==
    LET md5Step(p1) ==
            LET computed(md) ==
                    IF md.err # "nil" THEN [params |-> p1, err |-> md.err]
                    ELSE [params |-> [p1 EXCEPT !.md5 = md.sum, !.content = md.obj,
                                                !.info.ChecksumMD5 = md.sum],
                          err |-> "nil"]
            IN  IF ~c.useIntegrityMD5 THEN [params |-> p1, err |-> "nil"]
                ELSE IF p1.md5 = "" /\ p1.content # NoContent
                    THEN computed(getCheckSumMD5(p1.content))
                ELSE [params |-> [p1 EXCEPT !.info.ChecksumMD5 = p1.md5], err |-> "nil"]
        computed(crc) ==
            IF crc.err # "nil" THEN [params |-> params, err |-> crc.err]
            ELSE md5Step([params EXCEPT !.crc32c = crc.sum, !.content = crc.obj,
                                        !.info.ChecksumCRC32C = crc.sum])
    IN  IF ~c.useIntegrityCRC32C THEN md5Step(params)
        ELSE IF params.crc32c = "" /\ params.content # NoContent
            THEN computed(getCheckSumCRC32C(params.content))
        ELSE md5Step([params EXCEPT !.info.ChecksumCRC32C = params.crc32c])

\* handleGetFileIntegrityCheckOptionsCRC32C: compare the embedded (or, when
\* none is embedded, the computed) checksum with the expected one.
handleGetFileIntegrityCheckOptionsCRC32C(params) ==
    LET compare(p1) ==
            LET cmp == compareChecksum(p1.crc32c, params.getOptions.ChecksumCRC32C)
            IN  IF cmp # "nil" THEN [params |-> p1, err |-> cmp]
                ELSE [params |-> [p1 EXCEPT !.info.ChecksumCRC32C = p1.crc32c], err |-> "nil"]
        computed(crc) ==
            IF crc.err # "nil" THEN [params |-> params, err |-> crc.err]
            ELSE compare([params EXCEPT !.crc32c = crc.sum, !.content = crc.obj])
    IN  IF params.crc32c = "" THEN computed(getCheckSumCRC32C(params.content))
        ELSE compare(params)

\* handleGetFileIntegrityCheckOptionsMD5
handleGetFileIntegrityCheckOptionsMD5(params) ==
    LET compare(p1) ==
            LET cmp == compareChecksum(p1.md5, params.getOptions.ChecksumMD5)
            IN  IF cmp # "nil" THEN [params |-> p1, err |-> cmp]
                ELSE [params |-> [p1 EXCEPT !.info.ChecksumMD5 = p1.md5], err |-> "nil"]
        computed(md) ==
            IF md.err # "nil" THEN [params |-> params, err |-> md.err]
            ELSE compare([params EXCEPT !.md5 = md.sum, !.content = md.obj])
    IN  IF params.md5 = "" THEN computed(getCheckSumMD5(params.content))
        ELSE compare(params)

\* A variant of handleGetFileIntegrityOptions that runs both checks whatever
\* the expected values are; C8 does not hold of it.
handleGetFileIntegrityOptionsUnguarded(params) ==
    LET md5Check(r1) == handleGetFileIntegrityCheckOptionsMD5(r1.params)
    IN  md5Check(handleGetFileIntegrityCheckOptionsCRC32C(params))

\* handleGetFileIntegrityOptions: both checks assign the same err variable,
\* the MD5 check (when requested) after the CRC32C check.
handleGetFileIntegrityOptions(params) ==
    LET md5Check(r1) ==
            IF r1.params.getOptions.ChecksumMD5 # ""
                THEN handleGetFileIntegrityCheckOptionsMD5(r1.params)
            ELSE r1
    IN  md5Check(IF params.getOptions.ChecksumCRC32C # ""
                    THEN handleGetFileIntegrityCheckOptionsCRC32C(params)
                 ELSE [params |-> params, err |-> "nil"])

\* client.handleIntegrity: lift the reserved keys out of the metadata, then
\* the settings, then the per-call options.
handleIntegrity(c, obj, info, getOptions) ==
    LET params == [content |-> obj,
                   info |-> [info EXCEPT !.MetaData =
                                MapDelete(MapDelete(info.MetaData, keyCR32CChecksum), keyMD5Checksum)],
                   getOptions |-> getOptions,
                   crc32c |-> MapGet(info.MetaData, keyCR32CChecksum),
                   md5 |-> MapGet(info.MetaData, keyMD5Checksum)]
        options(settings) ==
            IF settings.err # "nil" THEN settings
            ELSE handleGetFileIntegrityOptions(settings.params)
    IN  options(handleGetFileIntegritySettings(c, params))

\* A variant of handleGetFileInfoIntegrity that leaves the MD5 key in the
\* metadata; the hygiene property C10 does not hold of it.
handleGetFileInfoIntegrityKeepMD5(c, info) ==
    [info EXCEPT
        !.ChecksumCRC32C = IF c.useIntegrityCRC32C THEN MapGet(info.MetaData, keyCR32CChecksum) ELSE @,
        !.ChecksumMD5 = IF c.useIntegrityMD5 THEN MapGet(info.MetaData, keyMD5Checksum) ELSE @,
        !.MetaData = MapDelete(info.MetaData, keyCR32CChecksum)]

\* client.handleGetFileInfoIntegrity
handleGetFileInfoIntegrity(c, info) ==
    [info EXCEPT
        !.ChecksumCRC32C = IF c.useIntegrityCRC32C THEN MapGet(info.MetaData, keyCR32CChecksum) ELSE @,
        !.ChecksumMD5 = IF c.useIntegrityMD5 THEN MapGet(info.MetaData, keyMD5Checksum) ELSE @,
        !.MetaData = MapDelete(MapDelete(info.MetaData, keyCR32CChecksum), keyMD5Checksum)]

-----------------------------------------------------------------------------
(* Single-object operations *)

NoObject == [none |-> "object"]

NoFile == [none |-> "file"]

\* A path is modelled by its "/"-separated segments, strings.Split(path, "/"):
\* "dir/a.txt" is <<"dir", "a.txt">>, "tmp/" is <<"tmp", "">>.
\* pathpkg.Base(path): the last segment after dropping trailing slashes;
\* "." for the empty path, "/" for a path of slashes only.
RECURSIVE Base(_)
Base(path) ==
    IF path = <<"">> THEN "."
    ELSE IF path[Len(path)] # "" THEN path[Len(path)]
    ELSE IF Len(path) = 1 THEN "/"
    ELSE Base(IF Len(path) = 2 /\ path[1] = "" THEN <<"">> ELSE SubSeq(path, 1, Len(path) - 1))

\* The content type the backend stores for a PutObject whose options name
\* none.
DefaultContentType == "application/octet-stream"

\* A variant of NewFileInfo that takes the checksum fields from the stored
\* metadata right away; C7 does not hold of it.
NewFileInfoPrefilled(path, o) ==
    [Name |-> Base(path), Path |-> path, Size |-> Len(o.content),
     ContentType |-> o.contentType, MetaData |-> o.meta,
     ChecksumCRC32C |-> MapGet(o.meta, keyCR32CChecksum),
     ChecksumMD5 |-> MapGet(o.meta, keyMD5Checksum)]

\* A variant of NewFileInfo that forgets the content type; the round trip
\* C14 does not hold of it.
NewFileInfoNoContentType(path, o) ==
    [Name |-> Base(path), Path |-> path, Size |-> Len(o.content),
     ContentType |-> "", MetaData |-> o.meta,
     ChecksumCRC32C |-> "", ChecksumMD5 |-> ""]

\* The FileInfo both GetFile and GetFileInfo build from the backend's
\* ObjectInfo, before the integrity handling.
NewFileInfo(path, o) ==
    [Name |-> Base(path), Path |-> path, Size |-> Len(o.content),
     ContentType |-> o.contentType, MetaData |-> o.meta,
     ChecksumCRC32C |-> "", ChecksumMD5 |-> ""]

\* client.GetFile on stored object o (NoObject: the key does not exist).
\* fault: "get" -- GetObject fails; "stat" -- object.Stat() fails; "read" --
\* reading the object's content fails.
\* object: what has become of the stream GetObject returned ("none" when it
\* returned none); GetFile itself never closes it.
GetFile(c, path, o, getOptions, fault) ==
    LET file(r) ==
            IF r.err # "nil" THEN [file |-> NoFile, err |-> r.err, object |-> "open"]
            ELSE [file |-> [info |-> r.params.info, ReadCloser |-> r.params.content],
                  err |-> "nil", object |-> "open"]
    IN  IF fault = "get" THEN [file |-> NoFile, err |-> "backend", object |-> "none"]
        ELSE IF o = NoObject THEN [file |-> NoFile, err |-> "NoSuchKey", object |-> "open"]
        ELSE IF fault = "stat" THEN [file |-> NoFile, err |-> "backend", object |-> "open"]
        ELSE file(handleIntegrity(c, Stream(o.content, 0, fault = "read"),
                                  NewFileInfo(path, o), getOptions))

\* A variant of GetFileInfo that runs the integrity handling of GetFile on the
\* object's content; C15 does not hold of it.
GetFileInfoComputing(c, path, o, fault) ==
    LET info(r) ==
            IF r.err # "nil" THEN [info |-> NoFile, err |-> r.err]
            ELSE [info |-> r.params.info, err |-> "nil"]
    IN  IF o = NoObject THEN [info |-> NoFile, err |-> "NoSuchKey"]
        ELSE IF fault = "stat" THEN [info |-> NoFile, err |-> "backend"]
        ELSE info(handleIntegrity(c, Stream(o.content, 0, FALSE), NewFileInfo(path, o),
                                  [ChecksumCRC32C |-> "", ChecksumMD5 |-> ""]))

\* client.GetFileInfo on stored object o.
GetFileInfo(c, path, o, fault) ==
    IF o = NoObject THEN [info |-> NoFile, err |-> "NoSuchKey"]
    ELSE IF fault = "stat" THEN [info |-> NoFile, err |-> "backend"]
    ELSE [info |-> handleGetFileInfoIntegrity(c, NewFileInfo(path, o)), err |-> "nil"]

\* client.UploadFile: the checksums of the enabled kinds go into the user
\* metadata of the options, the Upload's own metadata is copied over them,
\* a non-empty content type of the Upload replaces the one of the options,
\* then PutObject stores what the stream still delivers.
\* clientOptions: the PutObjectOptions the caller's upload options built;
\* fault: "put" -- PutObject fails.
\* UserMetadata: the map opts.clientOptions.UserMetadata as the call leaves it.
UploadFile(c, upload, clientOptions, fault) ==
    LET failed(err, um) ==
            [info |-> NoFile, err |-> err, put |-> NoObject, putInvoked |-> FALSE,
             UserMetadata |-> um]
        putFailed(err, um) ==
            [info |-> NoFile, err |-> err, put |-> NoObject, putInvoked |-> TRUE,
             UserMetadata |-> MapMerge(um, upload.MetaData)]
        put(data, crc32c, md5, um) ==
            IF data.broken THEN putFailed("io", um)
            ELSE IF fault = "put" THEN putFailed("backend", um)
            ELSE [info |-> [Size |-> Len(ReadAll(data).bytes),
                            ChecksumCRC32C |-> crc32c, ChecksumMD5 |-> md5],
                  err |-> "nil",
                  putInvoked |-> TRUE,
                  UserMetadata |-> MapMerge(um, upload.MetaData),
                  put |-> [content |-> ReadAll(data).bytes,
                           contentType |->
                                IF upload.ContentType # "" THEN upload.ContentType
                                ELSE IF clientOptions.ContentType # "" THEN clientOptions.ContentType
                                ELSE DefaultContentType,
                           meta |-> MapMerge(um, upload.MetaData)]]
        md5Step(data, crc32c, um) ==
            LET computed(md) ==
                    IF md.err # "nil" THEN failed(md.err, um)
                    ELSE put(md.obj, crc32c, md.sum, MapSet(um, keyMD5Checksum, md.sum))
            IN  IF c.useIntegrityMD5 THEN computed(getCheckSumMD5(data))
                ELSE put(data, crc32c, "", um)
        computed(crc) ==
            IF crc.err # "nil" THEN failed(crc.err, clientOptions.UserMetadata)
            ELSE md5Step(crc.obj, crc.sum,
                         MapSet(clientOptions.UserMetadata, keyCR32CChecksum, crc.sum))
    IN  IF c.useIntegrityCRC32C THEN computed(getCheckSumCRC32C(upload.ReadSeeker))
        ELSE md5Step(upload.ReadSeeker, "", clientOptions.UserMetadata)

-----------------------------------------------------------------------------
(* Directory batch: data *)

Keys == 1..MaxKeys

NoHolder == 0

\* Capacity of the error channel: errCh := make(chan error).
ErrChCap == 0

BatchOps == {"GetDirectory", "GetDirectoryInfos", "DownloadDirectory"}

\* GetDirectory and GetDirectoryInfos collect results under a mutex,
\* DownloadDirectory has no result slice.
Collects(o) == o \in {"GetDirectory", "GetDirectoryInfos"}

\* The buffered variant of download.go collects its results without a mutex.
Unguarded(o) == o = "DownloadDirectoryWithOptions"

\* An item of the channel returned by ListObjects: an object key, or an item
\* whose Err field is set.
KeyItem(k) == [key |-> k, err |-> FALSE]

ErrItem == [key |-> 0, err |-> TRUE]

\* The listings ListObjects can deliver: n distinct keys, optionally followed
\* by an error item (everything after an error item is never consumed).
Listing(n, withErr) ==
    [i \in 1..n |-> KeyItem(i)] \o (IF withErr THEN <<ErrItem>> ELSE <<>>)

-----------------------------------------------------------------------------
(* sync.Mutex *)

\* A variant of CanLock for a unit that does not take the mutex at all; the
\* completeness property C4 does not hold of it.
CanLockNoMutex(holder) == TRUE

\* mtx.Lock() proceeds only when nobody holds the mutex.
CanLock(holder) == holder = NoHolder

-----------------------------------------------------------------------------
(* Directory batch operations *)

BatchInit ==
    /\ op = "none"
    /\ pc = "idle"
    /\ objectCh = <<>>
    /\ wg = 0
    /\ mtx = NoHolder
    /\ units = [k \in Keys |-> "none"]
    /\ tmp = [k \in Keys |-> <<>>]
    /\ result = <<>>
    /\ errCh = <<>>
    /\ ret = [kind |-> "none"]
    /\ listed = {}
    /\ calls = [k \in Keys |-> 0]
    /\ cancelled = FALSE

\* The caller invokes one of the three operations; ListObjects starts to
\* deliver the listing, wg / errCh / mtx / result are created.
Call(o, n, withErr) ==
    /\ pc = "idle"
    /\ op' = o
    /\ objectCh' = Listing(n, withErr)
    /\ listed' = 1..n
    /\ pc' = "listing"
    /\ UNCHANGED <<wg, mtx, units, tmp, result, errCh, ret, calls, cancelled>>
    /\ UNCHANGED <<integrityVars, otherVars>>

\* for objInfo := range objectCh { ... } -- one iteration on an error item:
\* the call returns the listing error at once.
ListError ==
    /\ pc = "listing"
    /\ objectCh # <<>>
    /\ Head(objectCh).err
    /\ ret' = [kind |-> "listingError"]
    /\ pc' = "returned"
    /\ objectCh' = Tail(objectCh)
    /\ UNCHANGED <<op, wg, mtx, units, tmp, result, errCh>>
    /\ UNCHANGED callVars
    /\ UNCHANGED <<integrityVars, otherVars>>

\* One iteration on a key: wg.Add(1) and go func(info) {...}(objInfo).
ListSpawn ==
    /\ pc = "listing"
    /\ objectCh # <<>>
    /\ ~Head(objectCh).err
    /\ wg' = wg + 1
    /\ units' = [units EXCEPT ![Head(objectCh).key] = "running"]
    /\ objectCh' = Tail(objectCh)
    /\ UNCHANGED <<op, pc, mtx, tmp, result, errCh, ret>>
    /\ UNCHANGED callVars
    /\ UNCHANGED <<integrityVars, otherVars>>

\* The listing channel is closed: the range loop ends, the caller reaches
\* wg.Wait().
ListEnd ==
    /\ pc = "listing"
    /\ objectCh = <<>>
    /\ pc' = "wait"
    /\ UNCHANGED <<op, objectCh, wg, mtx, units, tmp, result, errCh, ret>>
    /\ UNCHANGED callVars
    /\ UNCHANGED <<integrityVars, otherVars>>

\* `errCh <- err` completes at once only while the channel has a free buffer
\* slot: no goroutine receives from errCh before wg.Wait() has returned.
SendCompletes(ch) == Len(ch) < ErrChCap

\* A variant of UnitOp in which the first failure makes the units that are
\* still running give up their operations; C27 does not hold of it.
UnitOpFailFast(k, ok) ==
    /\ units[k] = "running"
    /\ cancelled => ~ok
    /\ calls' = [calls EXCEPT ![k] = calls[k] + 1]
    /\ units' = [j \in Keys |->
                    IF j = k
                        THEN (IF ~ok THEN (IF Len(errCh) < ErrChCap THEN "finishing" ELSE "sending")
                              ELSE IF Collects(op) THEN "locking" ELSE "finishing")
                    ELSE IF ~ok /\ units[j] = "running" THEN "finishing"
                    ELSE units[j]]
    /\ errCh' = IF ~ok /\ Len(errCh) < ErrChCap THEN Append(errCh, k) ELSE errCh
    /\ UNCHANGED <<op, pc, objectCh, wg, mtx, tmp, result, ret, listed, cancelled>>
    /\ UNCHANGED <<integrityVars, otherVars>>

\* The per-key operation (GetFile / GetFileInfo / DownloadFile) of unit k
\* returns; the backend decides whether it succeeded.  On an error the unit
\* executes `errCh <- err`: it either hands the error to the channel and
\* returns, or blocks in the send.  On success it goes on to the append (or,
\* in DownloadDirectory, straight to the deferred wg.Done()).
UnitOp(k, ok) ==
    /\ units[k] = "running"
    /\ cancelled => ~ok
    /\ calls' = [calls EXCEPT ![k] = calls[k] + 1]
    /\ units' = [units EXCEPT ![k] =
                    IF ~ok THEN (IF SendCompletes(errCh) THEN "finishing" ELSE "sending")
                    ELSE IF Collects(op) THEN "locking" ELSE "finishing"]
    /\ errCh' = IF ~ok /\ SendCompletes(errCh) THEN Append(errCh, k) ELSE errCh
    /\ UNCHANGED <<op, pc, objectCh, wg, mtx, tmp, result, ret, listed, cancelled>>
    /\ UNCHANGED <<integrityVars, otherVars>>

\* A variant of UnitLock that does not wait for the mutex to be free; the
\* mutual exclusion of C31 does not hold of it.
UnitLockNoWait(k) ==
    /\ units[k] = "locking"
    /\ mtx' = k
    /\ tmp' = [tmp EXCEPT ![k] = result]
    /\ units' = [units EXCEPT ![k] = "appending"]
    /\ UNCHANGED <<op, pc, objectCh, wg, result, errCh, ret>>
    /\ UNCHANGED callVars
    /\ UNCHANGED <<integrityVars, otherVars>>

\* mtx.Lock(), then append reads the shared slice.
UnitLock(k) ==
    /\ units[k] = "locking"
    /\ CanLock(mtx)
    /\ mtx' = k
    /\ tmp' = [tmp EXCEPT ![k] = result]
    /\ units' = [units EXCEPT ![k] = "appending"]
    /\ UNCHANGED <<op, pc, objectCh, wg, result, errCh, ret>>
    /\ UNCHANGED callVars
    /\ UNCHANGED <<integrityVars, otherVars>>

\* result = append(result, doc): the grown slice is stored; mtx.Unlock().
UnitAppend(k) ==
    /\ units[k] = "appending"
    /\ result' = Append(tmp[k], k)
    /\ mtx' = NoHolder
    /\ units' = [units EXCEPT ![k] = "finishing"]
    /\ UNCHANGED <<op, pc, objectCh, wg, tmp, errCh, ret>>
    /\ UNCHANGED callVars
    /\ UNCHANGED <<integrityVars, otherVars>>

\* The function of unit k returns: the deferred wg.Done() runs.
UnitDone(k) ==
    /\ units[k] = "finishing"
    /\ wg' = wg - 1
    /\ units' = [units EXCEPT ![k] = "done"]
    /\ UNCHANGED <<op, pc, objectCh, mtx, tmp, result, errCh, ret>>
    /\ UNCHANGED callVars
    /\ UNCHANGED <<integrityVars, otherVars>>

\* wg.Wait() returns once the counter is zero.
Wait ==
    /\ pc = "wait"
    /\ wg = 0
    /\ pc' = "close"
    /\ UNCHANGED <<op, objectCh, wg, mtx, units, tmp, result, errCh, ret>>
    /\ UNCHANGED callVars
    /\ UNCHANGED <<integrityVars, otherVars>>

\* close(errCh); `for err := range errCh` receives what the channel buffers;
\* the final return.  A unit still blocked in `errCh <- err` when the channel
\* is closed panics.
CloseAndReturn ==
    /\ pc = "close"
    /\ pc' = "returned"
    /\ errCh' = <<>>
    /\ ret' = IF \E k \in Keys : units[k] = "sending"
                THEN [kind |-> "panic"]
              ELSE IF Len(errCh) > 0
                THEN [kind |-> "DownloadingFilesFailedError", errs |-> errCh]
              ELSE IF Collects(op) \/ Unguarded(op)
                THEN [kind |-> "ok", result |-> result]
              ELSE [kind |-> "ok"]
    /\ UNCHANGED <<op, objectCh, wg, mtx, units, tmp, result>>
    /\ UNCHANGED callVars
    /\ UNCHANGED <<integrityVars, otherVars>>

\* The caller's context is cancelled while the call is in progress: the
\* listing ends early, with or without an error item, and the per-key
\* operations that have not returned yet fail.
Cancel ==
    /\ pc \in {"listing", "wait"}
    /\ ~cancelled
    /\ cancelled' = TRUE
    /\ \E rest \in {<<>>, <<ErrItem>>} :
            objectCh' = IF pc = "listing" THEN rest ELSE objectCh
    /\ listed' = IF pc = "listing" THEN {k \in Keys : units[k] # "none"} ELSE listed
    /\ UNCHANGED <<op, pc, wg, mtx, units, tmp, result, errCh, ret, calls>>
    /\ UNCHANGED <<integrityVars, otherVars>>

\* DownloadDirectoryWithOptions, the goroutine of key k: its
\* DownloadFileWithOptions returns.  On an error the goroutine executes
\* `errCh <- err` and returns without wg.Done(); on success it goes on to the
\* append.
DownloadOp(k, ok) ==
    /\ units[k] = "running"
    /\ calls' = [calls EXCEPT ![k] = calls[k] + 1]
    /\ units' = [units EXCEPT ![k] =
                    IF ok THEN "reading"
                    ELSE IF SendCompletes(errCh) THEN "done" ELSE "sending"]
    /\ errCh' = IF ~ok /\ SendCompletes(errCh) THEN Append(errCh, k) ELSE errCh
    /\ UNCHANGED <<op, pc, objectCh, wg, mtx, tmp, result, ret, listed, cancelled>>
    /\ UNCHANGED <<integrityVars, otherVars>>

\* result = append(result, doc) without a lock, first half: the goroutine
\* reads the shared slice.
DownloadAppendRead(k) ==
    /\ units[k] = "reading"
    /\ tmp' = [tmp EXCEPT ![k] = result]
    /\ units' = [units EXCEPT ![k] = "writing"]
    /\ UNCHANGED <<op, pc, objectCh, wg, mtx, result, errCh, ret>>
    /\ UNCHANGED callVars
    /\ UNCHANGED <<integrityVars, otherVars>>

\* Second half: the goroutine stores the slice it has grown; wg.Done() is next.
DownloadAppendWrite(k) ==
    /\ units[k] = "writing"
    /\ result' = Append(tmp[k], k)
    /\ units' = [units EXCEPT ![k] = "finishing"]
    /\ UNCHANGED <<op, pc, objectCh, wg, mtx, tmp, errCh, ret>>
    /\ UNCHANGED callVars
    /\ UNCHANGED <<integrityVars, otherVars>>

\* The steps of a call of DownloadDirectoryWithOptions (download.go).
DownloadNext ==
    \/ \E n \in 0..MaxKeys, withErr \in BOOLEAN :
        Call("DownloadDirectoryWithOptions", n, withErr)
    \/ ListError
    \/ ListSpawn
    \/ ListEnd
    \/ \E k \in Keys, ok \in BOOLEAN : DownloadOp(k, ok)
    \/ \E k \in Keys : DownloadAppendRead(k)
    \/ \E k \in Keys : DownloadAppendWrite(k)
    \/ \E k \in Keys : UnitDone(k)
    \/ Wait
    \/ CloseAndReturn

BatchNext ==
    \/ Cancel
    \/ \E o \in BatchOps, n \in 0..MaxKeys, withErr \in BOOLEAN : Call(o, n, withErr)
    \/ ListError
    \/ ListSpawn
    \/ ListEnd
    \/ \E k \in Keys, ok \in BOOLEAN : UnitOp(k, ok)
    \/ \E k \in Keys : UnitLock(k)
    \/ \E k \in Keys : UnitAppend(k)
    \/ \E k \in Keys : UnitDone(k)
    \/ Wait
    \/ CloseAndReturn

-----------------------------------------------------------------------------
(* The bucket and the calls of the single-object operations *)

\* The keys of the bucket.
Paths == {<<"dir", "a.txt">>, <<"b.txt">>}

\* The key the calls of the integrity handling work on.
IntegrityPaths == {<<"dir", "a.txt">>}

\* Content types a caller names in an Upload ("": none) and in its upload
\* options.
ContentTypes == {"", "text/plain"}

OptionContentTypes == {"", "image/png"}

\* A client is built with its two integrity flags and keeps them.
Clients == [useIntegrityCRC32C : BOOLEAN, useIntegrityMD5 : BOOLEAN]

\* A checksum string that is the digest of none of the contents.
Bogus == "deadbeef"

\* The metadata a caller passes in Upload.MetaData: ordinary keys, and
\* (by accident) the reserved keys.
CallerMetaData ==
    { EmptyMap,
      MapSet(EmptyMap, "Filename", "a.txt"),
      MapSet(MapSet(EmptyMap, "Filename", "a.txt"), keyCR32CChecksum, Bogus),
      MapSet(EmptyMap, keyMD5Checksum, Bogus),
      MapSet(MapSet(EmptyMap, keyCR32CChecksum, Bogus), keyMD5Checksum, Bogus) }

\* The UserMetadata of the client options a caller passes to UploadFile.
OptionMetaData == { EmptyMap, MapSet(EmptyMap, "Tag", "t") }

\* Values a reserved key carries on an object some other writer stored.
EmbeddedChoice(key, digest) ==
    {EmptyMap} \cup {MapSet(EmptyMap, key, v) : v \in {"", digest, Bogus}}

\* The metadata of an object with the given content stored by another writer
\* (an older version of the library, a plain S3 client, ...).
ForeignMetaData(content) ==
    { MapMerge(MapMerge(u, a), b) :
        u \in {EmptyMap, MapSet(EmptyMap, "Filename", "a.txt")},
        a \in EmbeddedChoice(keyCR32CChecksum, CRC32CHex[content]),
        b \in EmbeddedChoice(keyMD5Checksum, MD5Hex[content]) }

\* The expected checksums a caller passes to GetFile for one kind: none, the
\* digest of the object's content, the same in upper case, the value the
\* object carries under the reserved key, and an unrelated value.
ExpectedChoice(o, key, hex, upper) ==
    {"", Bogus} \cup
        (IF o = NoObject THEN {}
         ELSE {hex[o.content], upper[o.content], MapGet(o.meta, key)})

GetOptionsFor(o) ==
    [ChecksumCRC32C : ExpectedChoice(o, keyCR32CChecksum, CRC32CHex, CRC32CUpper),
     ChecksumMD5 : ExpectedChoice(o, keyMD5Checksum, MD5Hex, MD5Upper)]

NoResult == [op |-> "none"]

\* No client has been constructed yet.
NoClient == [client |-> "none"]

IntegrityInit ==
    /\ store = [p \in Paths |-> NoObject]
    /\ res = NoResult
    /\ opened = NoFile
    /\ lifecycle = <<>>
    /\ health = NoClient

\* Another writer stores an object (PutObject on the bucket).
ForeignPut(p, content, meta) ==
    /\ res = NoResult
    /\ store' = [store EXCEPT ![p] =
                    [content |-> content, contentType |-> DefaultContentType, meta |-> meta,
                     origin |-> [by |-> "other"]]]
    /\ UNCHANGED res
    /\ UNCHANGED <<batchVars, otherVars>>

\* A call of client.UploadFile.  before / after: the caller's two maps, the
\* Upload's MetaData (only read by the call) and the UserMetadata of the
\* ClientUploadOptions it passed, before and after the call.  The options
\* hand the struct over by value, so a map in it is shared with the caller;
\* an empty UserMetadata stands for the nil map of ClientUploadOptions{},
\* in place of which the call makes a map of its own.
\* fault: "stream" -- the upload's stream
\* fails to seek / read; "put" -- PutObject fails.
UploadFileCall(c, p, data, pos, contentType, metaData, clientOptions, fault) ==
    LET return(r) ==
            /\ store' = IF r.err = "nil"
                          THEN [store EXCEPT ![p] =
                                  [content |-> r.put.content, contentType |-> r.put.contentType,
                                   meta |-> r.put.meta,
                                   origin |-> [by |-> "UploadFile", client |-> c, data |-> data,
                                               ContentType |-> contentType,
                                               MetaData |-> metaData,
                                               UserMetadata |-> clientOptions.UserMetadata,
                                               info |-> r.info]]]
                        ELSE store
            /\ res' = [op |-> "UploadFile", client |-> c, path |-> p, fault |-> fault,
                       pos |-> pos, err |-> r.err, info |-> r.info,
                       putInvoked |-> r.putInvoked,
                       before |-> [MetaData |-> metaData,
                                   UserMetadata |-> clientOptions.UserMetadata],
                       after |-> [MetaData |-> metaData,
                                  UserMetadata |->
                                    IF clientOptions.UserMetadata = EmptyMap THEN EmptyMap
                                    ELSE r.UserMetadata]]
    IN  /\ res = NoResult
        /\ return(UploadFile(c, [ReadSeeker |-> Stream(data, pos, fault = "stream"),
                                 Path |-> p, ContentType |-> contentType,
                                 MetaData |-> metaData],
                             clientOptions, fault))
        /\ UNCHANGED <<batchVars, otherVars>>

\* A call of client.GetFile.
GetFileCall(c, p, fault) ==
    LET return(getOptions, r) ==
            res' = [op |-> "GetFile", client |-> c, path |-> p, getOptions |-> getOptions,
                    fault |-> fault, err |-> r.err, file |-> r.file, object |-> r.object]
    IN  /\ res = NoResult
        /\ \E getOptions \in GetOptionsFor(store[p]) :
                return(getOptions, GetFile(c, p, store[p], getOptions, fault))
        /\ UNCHANGED store
        /\ UNCHANGED <<batchVars, otherVars>>

\* A call of client.GetFileInfo.
GetFileInfoCall(c, p, fault) ==
    LET return(r) ==
            res' = [op |-> "GetFileInfo", client |-> c, path |-> p, fault |-> fault,
                    err |-> r.err, info |-> r.info]
    IN  /\ res = NoResult
        /\ return(GetFileInfo(c, p, store[p], fault))
        /\ UNCHANGED store
        /\ UNCHANGED <<batchVars, otherVars>>

\* The caller has taken the result of its call.
Return ==
    /\ res # NoResult
    /\ res' = NoResult
    /\ UNCHANGED store
    /\ UNCHANGED <<batchVars, otherVars>>

IntegrityNext ==
    \/ \E p \in IntegrityPaths, content \in Contents :
        \E meta \in ForeignMetaData(content) : ForeignPut(p, content, meta)
    \/ \E c \in Clients, p \in IntegrityPaths, data \in Contents, metaData \in CallerMetaData,
          userMetadata \in OptionMetaData, fault \in {"none", "stream", "put"} :
        \E pos \in 0..Len(data) :
            UploadFileCall(c, p, data, pos, "", metaData,
                           [UserMetadata |-> userMetadata, ContentType |-> ""], fault)
    \/ \E c \in Clients, p \in IntegrityPaths, fault \in {"none", "get", "stat", "read"} :
        GetFileCall(c, p, fault)
    \/ \E c \in Clients, p \in IntegrityPaths, fault \in {"none", "stat"} :
        GetFileInfoCall(c, p, fault)
    \/ Return

-----------------------------------------------------------------------------
(* A downloaded File in the hands of its caller; the checksum helpers on a   *)
(* caller's stream                                                         *)

\* Length of the content of a downloaded object at most.
MaxBody == 2

Bodies == SeqsUpTo(MaxBody)

\* A client without integrity support.
PlainClient == [useIntegrityCRC32C |-> FALSE, useIntegrityMD5 |-> FALSE]

Min(a, b) == IF a < b THEN a ELSE b

\* The byte counts one Read into a buffer of the given size may deliver
\* (io.Reader: any count up to the size of the buffer, whatever is available).
ReadChoices(obj, size) ==
    IF obj.broken \/ size = 0 \/ Len(Remaining(obj)) = 0 THEN {0}
    ELSE 1..Min(size, Len(Remaining(obj)))

\* obj.Read(buf) that delivers n bytes: the bytes, the error and the stream
\* advanced.
Read(obj, size, n) ==
    IF obj.broken THEN [bytes |-> <<>>, err |-> "io", obj |-> obj]
    ELSE IF size > 0 /\ Len(Remaining(obj)) = 0 THEN [bytes |-> <<>>, err |-> "EOF", obj |-> obj]
    ELSE [bytes |-> SubSeq(obj.data, obj.pos + 1, obj.pos + n), err |-> "nil",
          obj |-> [obj EXCEPT !.pos = obj.pos + n]]

\* make([]byte, size) with the bytes a Read delivered at its start.
Buffer(size, bytes) == [i \in 1..size |-> IF i <= Len(bytes) THEN bytes[i] ELSE 0]

\* The File GetFile returns: its ReadCloser is open.
NewFile(r) == [info |-> r.info, ReadCloser |-> r.ReadCloser, closed |-> FALSE]

\* file.Read(buf) (the embedded ReadCloser): an error once the file is closed.
fileRead(fl, size, n) ==
    LET update(r) == [bytes |-> r.bytes, err |-> r.err, file |-> [fl EXCEPT !.ReadCloser = r.obj]]
    IN  IF fl.closed THEN [bytes |-> <<>>, err |-> "closed", file |-> fl]
        ELSE update(Read(fl.ReadCloser, size, n))

\* file.Close()
fileClose(fl) ==
    [err |-> IF fl.closed THEN "closed" ELSE "nil", file |-> [fl EXCEPT !.closed = TRUE]]

\* file.Bytes(): a buffer of info.Size bytes, one Read into it (which
\* delivers n bytes), and the deferred Close.
Bytes(fl, n) ==
    LET return(r) ==
            [buf |-> IF r.err \notin {"nil", "EOF"} THEN <<>> ELSE Buffer(fl.info.Size, r.bytes),
             err |-> IF r.err \notin {"nil", "EOF"} THEN r.err ELSE "nil",
             file |-> fileClose(r.file).file]
    IN  return(fileRead(fl, fl.info.Size, n))

\* A successful GetFile of an object with the given content hands its File to
\* the caller.  fault: "read" -- reading the object's content will fail.
OpenCall(c, p, body, fault) ==
    LET return(r) ==
            /\ r.err = "nil"
            /\ opened' = NewFile(r.file)
    IN  /\ res = NoResult
        /\ return(GetFile(c, p, [content |-> body, contentType |-> DefaultContentType,
                                 meta |-> EmptyMap],
                          [ChecksumCRC32C |-> "", ChecksumMD5 |-> ""], fault))
        /\ UNCHANGED <<store, res, lifecycle, health>>
        /\ UNCHANGED batchVars

\* The caller reads from its File into a buffer of the given size.
FileReadCall(size) ==
    LET return(r) ==
            /\ opened' = r.file
            /\ res' = [op |-> "Read", before |-> opened, size |-> size,
                       bytes |-> r.bytes, err |-> r.err]
    IN  /\ res = NoResult
        /\ opened # NoFile
        /\ \E n \in (IF opened.closed THEN {0} ELSE ReadChoices(opened.ReadCloser, size)) :
                return(fileRead(opened, size, n))
        /\ UNCHANGED <<store, lifecycle, health>>
        /\ UNCHANGED batchVars

\* The caller calls Bytes on its File.
FileBytesCall ==
    LET return(r) ==
            /\ opened' = r.file
            /\ res' = [op |-> "Bytes", before |-> opened, buf |-> r.buf, err |-> r.err]
    IN  /\ res = NoResult
        /\ opened # NoFile
        /\ \E n \in (IF opened.closed THEN {0}
                     ELSE ReadChoices(opened.ReadCloser, opened.info.Size)) :
                return(Bytes(opened, n))
        /\ UNCHANGED <<store, lifecycle, health>>
        /\ UNCHANGED batchVars

\* The caller closes its File.
FileCloseCall ==
    LET return(r) ==
            /\ opened' = r.file
            /\ res' = [op |-> "Close", before |-> opened, err |-> r.err]
    IN  /\ res = NoResult
        /\ opened # NoFile
        /\ return(fileClose(opened))
        /\ UNCHANGED <<store, lifecycle, health>>
        /\ UNCHANGED batchVars

\* getCheckSumCRC32C / getCheckSumMD5 applied to a caller's stream standing
\* at position pos.
ChecksumCall(k, data, pos, broken) ==
    LET return(before, r) ==
            res' = [op |-> "getCheckSum", kind |-> k, before |-> before,
                    sum |-> r.sum, err |-> r.err, obj |-> r.obj]
        apply(obj) ==
            return(obj, IF k = "CRC32C" THEN getCheckSumCRC32C(obj) ELSE getCheckSumMD5(obj))
    IN  /\ res = NoResult
        /\ apply(Stream(data, pos, broken))
        /\ UNCHANGED <<store, opened, lifecycle, health>>
        /\ UNCHANGED batchVars

\* The caller has taken the result of its call on the File or the stream.
StreamReturn ==
    /\ res # NoResult
    /\ res' = NoResult
    /\ UNCHANGED <<store, opened, lifecycle, health>>
    /\ UNCHANGED batchVars

\* The readers a caller hands to GenerateCheckSumCRC32C / GenerateCheckSumMD5.
Readers ==
    { obj \in { Stream(data, pos, broken) :
                    data \in Hashed, pos \in 0..Len(TestContent), broken \in BOOLEAN } :
        obj.pos <= Len(obj.data) /\ Remaining(obj) \in Hashed }

\* GenerateCheckSumCRC32C / GenerateCheckSumMD5 applied to two readers of a
\* caller, one after the other.
GenerateCall(k, first, second) ==
    LET generate(obj) ==
            IF k = "CRC32C" THEN GenerateCheckSumCRC32C(obj) ELSE GenerateCheckSumMD5(obj)
        computed(obj, r) == [before |-> obj, sum |-> r.sum, err |-> r.err]
    IN  /\ res = NoResult
        /\ res' = [op |-> "GenerateCheckSum", kind |-> k,
                   first |-> computed(first, generate(first)),
                   second |-> computed(second, generate(second))]
        /\ UNCHANGED <<store, opened, lifecycle, health>>
        /\ UNCHANGED batchVars

StreamNext ==
    \/ \E k \in {"CRC32C", "MD5"}, first \in Readers, second \in Readers :
        GenerateCall(k, first, second)
    \/ \E p \in IntegrityPaths, body \in Bodies, fault \in {"none", "read"} :
        OpenCall(PlainClient, p, body, fault)
    \/ \E size \in 0..MaxBody : FileReadCall(size)
    \/ FileBytesCall
    \/ FileCloseCall
    \/ \E k \in {"CRC32C", "MD5"}, data \in Contents, broken \in BOOLEAN :
        \E pos \in 0..Len(data) : ChecksumCall(k, data, pos, broken)
    \/ StreamReturn

-----------------------------------------------------------------------------
(* Uploads, downloads and removals on several keys of the bucket *)

\* A variant of RemoveFile that reports success without removing anything;
\* C19 does not hold of it.
RemoveFileKeep(bucket, path, fault) ==
    [err |-> IF fault = "remove" THEN "backend" ELSE "nil", bucket |-> bucket]

\* client.RemoveFile: RemoveObject on the bucket; removing a key that holds no
\* object succeeds.  fault: "remove" -- RemoveObject fails.
RemoveFile(bucket, path, fault) ==
    IF fault = "remove" THEN [err |-> "backend", bucket |-> bucket]
    ELSE [err |-> "nil", bucket |-> [bucket EXCEPT ![path] = NoObject]]

\* A call of client.RemoveFile.
RemoveFileCall(c, p, fault) ==
    LET return(r) ==
            /\ store' = r.bucket
            /\ res' = [op |-> "RemoveFile", client |-> c, path |-> p, fault |-> fault,
                       err |-> r.err]
    IN  /\ res = NoResult
        /\ return(RemoveFile(store, p, fault))
        /\ UNCHANGED <<batchVars, otherVars>>

\* The error codes of a minio.ErrorResponse the backend answers with; "io"
\* stands for a failure that is no error response of the backend.
ErrorResponses == {"NoSuchKey", "AccessDenied"}

\* Where a download fails and with what.
DownloadFaults ==
    {[at |-> "none", kind |-> "none"]}
        \cup {[at |-> a, kind |-> k] : a \in {"get", "stat", "read"},
                                       k \in ErrorResponses \cup {"io"}}

\* client.DownloadFileWithOptions on stored object o (NoObject: the key does
\* not exist, which the backend reports to object.Stat()).  backend: what
\* the backend reported.
DownloadFileWithOptions(path, o, fault) ==
    LET wrapped(kind) == [file |-> NoFile, err |-> "wrapped", backend |-> kind]
    IN  IF fault.at = "get" THEN wrapped(fault.kind)
        ELSE IF o = NoObject THEN wrapped("NoSuchKey")
        ELSE IF fault.at = "stat" THEN wrapped(fault.kind)
        ELSE IF fault.at = "read"
            THEN (IF fault.kind \in ErrorResponses
                    THEN [file |-> NoFile, err |-> "ErrNotFound", backend |-> fault.kind]
                  ELSE wrapped(fault.kind))
        ELSE [file |-> [Content |-> o.content, ContentType |-> o.contentType,
                        Name |-> Base(path), MetaData |-> o.meta,
                        Length |-> Len(o.content)],
              err |-> "nil", backend |-> "none"]

\* A call of client.DownloadFileWithOptions.
DownloadFileWithOptionsCall(p, fault) ==
    LET return(r) ==
            res' = [op |-> "DownloadFileWithOptions", path |-> p, fault |-> fault,
                    err |-> r.err, file |-> r.file, backend |-> r.backend]
    IN  /\ res = NoResult
        /\ return(DownloadFileWithOptions(p, store[p], fault))
        /\ UNCHANGED store
        /\ UNCHANGED <<batchVars, otherVars>>

ObjectNext ==
    \/ \E p \in Paths, data \in Contents, contentType \in ContentTypes,
          optionContentType \in OptionContentTypes, fault \in {"none", "put"} :
        UploadFileCall(PlainClient, p, data, 0, contentType, EmptyMap,
                       [UserMetadata |-> EmptyMap, ContentType |-> optionContentType], fault)
    \/ \E p \in Paths, fault \in {"none", "stat"} : GetFileCall(PlainClient, p, fault)
    \/ \E p \in Paths, fault \in {"none", "stat"} : GetFileInfoCall(PlainClient, p, fault)
    \/ \E p \in Paths, fault \in {"none", "remove"} : RemoveFileCall(PlainClient, p, fault)
    \/ \E p \in Paths, fault \in DownloadFaults : DownloadFileWithOptionsCall(p, fault)
    \/ Return

-----------------------------------------------------------------------------
(* Connection details and the bucket's lifecycle configuration *)

\* The values a field of ClientDetails takes: not specified, or specified.
FieldValues == {"", "x"}

ClientDetails ==
    [Host : FieldValues, AccessKey : FieldValues, AccessSecret : FieldValues,
     BucketName : FieldValues]

\* A variant of validate that looks at the access key before the host; C18
\* does not hold of it.
validateKeyFirst(d) ==
    IF d.AccessKey = "" THEN "ErrEmptyAccessKey"
    ELSE IF d.Host = "" THEN "ErrEmptyHost"
    ELSE IF d.AccessSecret = "" THEN "ErrEmptyAccessSecret"
    ELSE IF d.BucketName = "" THEN "ErrEmptyBucketName"
    ELSE "nil"

\* ClientDetails.validate: the switch takes the first case that matches.
validate(d) ==
    IF d.Host = "" THEN "ErrEmptyHost"
    ELSE IF d.AccessKey = "" THEN "ErrEmptyAccessKey"
    ELSE IF d.AccessSecret = "" THEN "ErrEmptyAccessSecret"
    ELSE IF d.BucketName = "" THEN "ErrEmptyBucketName"
    ELSE "nil"

\* The connection details of a caller are validated.
ValidateCall(d) ==
    /\ res = NoResult
    /\ res' = [op |-> "validate", details |-> d, err |-> validate(d)]
    /\ UNCHANGED <<store, opened, lifecycle, health>>
    /\ UNCHANGED batchVars

\* Rule IDs, folder paths (as segments: "tmp" and "tmp/", "logs/") and
\* expiries in days a caller passes to AddLifeCycleRule.
RuleIDs == {"r1", "r2"}

FolderPaths == {<<"tmp">>, <<"tmp", "">>, <<"logs", "">>}

ExpiryDays == {1, 30}

\* strings.HasSuffix(folderPath, "/")
HasSlashSuffix(folderPath) == Len(folderPath) >= 2 /\ folderPath[Len(folderPath)] = ""

\* folderPath += "/"
AppendSlash(folderPath) == Append(folderPath, "")

\* client.AddLifeCycleRule: SetBucketLifecycle with a configuration made of
\* the one rule.  fault: "set" -- SetBucketLifecycle fails.
AddLifeCycleRule(rules, ruleID, folderPath, daysToExpiry, fault) ==
    IF fault = "set" THEN [err |-> "backend", rules |-> rules]
    ELSE [err |-> "nil",
          rules |-> << [ID |-> ruleID,
                        Expiration |-> [Days |-> daysToExpiry],
                        Prefix |-> IF HasSlashSuffix(folderPath) THEN folderPath
                                   ELSE AppendSlash(folderPath),
                        Status |-> "Enabled"] >>]

\* A call of client.AddLifeCycleRule.
AddLifeCycleRuleCall(ruleID, folderPath, daysToExpiry, fault) ==
    LET return(r) ==
            /\ lifecycle' = r.rules
            /\ res' = [op |-> "AddLifeCycleRule", ruleID |-> ruleID, folderPath |-> folderPath,
                       daysToExpiry |-> daysToExpiry, err |-> r.err]
    IN  /\ res = NoResult
        /\ return(AddLifeCycleRule(lifecycle, ruleID, folderPath, daysToExpiry, fault))
        /\ UNCHANGED <<store, opened, health>>
        /\ UNCHANGED batchVars

\* The caller has taken the result of its call.
AdminReturn ==
    /\ res # NoResult
    /\ res' = NoResult
    /\ UNCHANGED <<store, opened, lifecycle, health>>
    /\ UNCHANGED batchVars

\* The outcomes of minioClient.HealthCheck a caller's options meet: the task
\* is started ("ok"), or the call returns an error ("fail").
OptionLists ==
    UNION {[1..n -> {"ok", "fail"}] : n \in 0..MaxOptions}

\* WithHealthCheck(interval)(c): c.cancelFunc, err = c.minioClient.HealthCheck(interval).
\* HealthCheck refuses to start a second task while one is running; on an
\* error it returns a nil cancel function, which is assigned all the same.
WithHealthCheck(c, outcome) ==
    IF c.running \/ outcome = "fail"
        THEN [c EXCEPT !.cancelFunc = FALSE, !.err = "healthCheck"]
    ELSE [c EXCEPT !.cancelFunc = TRUE, !.running = TRUE]

RECURSIVE ApplyOptions(_, _)
\* for i := range options { if err := options[i](client); err != nil { return } }
ApplyOptions(c, options) ==
    IF options = <<>> THEN c
    ELSE LET next(r) == IF r.err # "nil" THEN r ELSE ApplyOptions(r, Tail(options))
         IN  next(WithHealthCheck(c, Head(options)))

\* NewClient: minio.New, the options in their order, BucketExists.  fault:
\* "new" -- minio.New fails; "bucketExists" -- BucketExists fails;
\* "noBucket" -- the bucket does not exist.
NewClient(options, fault) ==
    LET fresh == [client |-> "open", options |-> options, cancelFunc |-> FALSE,
                  running |-> FALSE, cancels |-> 0, closes |-> 0, err |-> "nil"]
        failed(c, err) == [c EXCEPT !.client = "failed", !.err = err]
        checked(c) ==
            IF c.err # "nil" THEN failed(c, c.err)
            ELSE IF fault = "bucketExists" THEN failed(c, "bucketExists")
            ELSE IF fault = "noBucket" THEN failed(c, "BucketDoesNotExistError")
            ELSE c
    IN  IF fault = "new" THEN failed(fresh, "new")
        ELSE checked(ApplyOptions(fresh, options))

\* A variant of Close that leaves the health-check task alone.
CloseKeepRunning(c) == [c EXCEPT !.closes = c.closes + 1]

\* client.Close: if c.cancelFunc != nil { c.cancelFunc() }.  The cancel
\* function is a context.CancelFunc: its first call stops the task, further
\* calls do nothing.
Close(c) ==
    IF c.cancelFunc
        THEN [c EXCEPT !.closes = c.closes + 1, !.cancels = c.cancels + 1,
                       !.running = FALSE]
    ELSE [c EXCEPT !.closes = c.closes + 1]

\* A call of NewClient.
NewClientCall(options, fault) ==
    /\ health = NoClient
    /\ health' = NewClient(options, fault)
    /\ UNCHANGED <<store, res, opened, lifecycle>>
    /\ UNCHANGED batchVars

\* A call of Close on the client NewClient returned.
CloseCall ==
    /\ health.client = "open"
    /\ health.closes < MaxCloses
    /\ health' = Close(health)
    /\ UNCHANGED <<store, res, opened, lifecycle>>
    /\ UNCHANGED batchVars

AdminNext ==
    \/ \E options \in OptionLists, fault \in {"none", "new", "bucketExists", "noBucket"} :
        NewClientCall(options, fault)
    \/ CloseCall
    \/ \E d \in ClientDetails : ValidateCall(d)
    \/ \E ruleID \in RuleIDs, folderPath \in FolderPaths, daysToExpiry \in ExpiryDays,
          fault \in {"none", "set"} :
        AddLifeCycleRuleCall(ruleID, folderPath, daysToExpiry, fault)
    \/ AdminReturn

-----------------------------------------------------------------------------
(* The keys a directory call works on and the local files it writes.  Keys *)
(* and paths are sequences of characters here: "d/x" is <<"d", "/", "x">>.   *)

\* The keys the bucket may hold: three below the folder "d", one in the
\* sibling folder "d-i", one in the folder "e", one at the top ("dx").
KeyNames ==
    { <<"d", "/", "x">>, <<"d", "/", "s", "/", "y">>, <<"d", "/", "d", "x">>,
      <<"d", "-", "i", "/", "x">>, <<"e", "/", "x">>, <<"d", "x">> }

\* The paths a caller queries, without and with a trailing "/".
QueriedPaths == { <<"d">>, <<"d", "/">>, <<"e">>, <<"d", "/", "s">> }

LocalPaths == { <<"t">> }

Slash == <<"/">>

\* strings.HasPrefix(s, prefix)
HasPrefix(str, prefix) ==
    Len(prefix) <= Len(str) /\ SubSeq(str, 1, Len(prefix)) = prefix

\* strings.TrimPrefix(s, prefix)
TrimPrefix(str, prefix) ==
    IF HasPrefix(str, prefix) THEN SubSeq(str, Len(prefix) + 1, Len(str)) ELSE str

\* minioClient.ListObjects with Prefix: path and Recursive: true: the keys of
\* the bucket that begin with the prefix.
ListObjects(keys, prefix) == {k \in keys : HasPrefix(k, prefix)}

\* DownloadDirectory: the local file the object under key is downloaded to.
Destination(path, localPath, key) ==
    localPath \o Slash \o TrimPrefix(key, path \o Slash)

\* A call of GetDirectory, GetDirectoryInfos or DownloadDirectory (recursive)
\* on a bucket holding the given keys: the keys its listing delivers, each of
\* which gets its per-key operation, and for DownloadDirectory the local file
\* of each.
DirectoryCall(o, keys, path, localPath) ==
    LET return(listing) ==
            res' = [op |-> o, path |-> path, localPath |-> localPath, bucket |-> keys,
                    keys |-> listing,
                    files |-> IF o = "DownloadDirectory"
                                THEN {[key |-> k, file |-> Destination(path, localPath, k)] :
                                        k \in listing}
                              ELSE {}]
    IN  /\ res = NoResult
        /\ return(ListObjects(keys, path))
        /\ UNCHANGED <<store, opened, lifecycle, health>>
        /\ UNCHANGED batchVars

\* The caller has taken the result of its directory call.
DirectoryReturn ==
    /\ res # NoResult
    /\ res' = NoResult
    /\ UNCHANGED <<store, opened, lifecycle, health>>
    /\ UNCHANGED batchVars

DirectoryNext ==
    \/ \E o \in BatchOps, keys \in SUBSET KeyNames, path \in QueriedPaths,
          localPath \in LocalPaths :
        DirectoryCall(o, keys, path, localPath)
    \/ DirectoryReturn

-----------------------------------------------------------------------------
(* Specifications *)

Init == BatchInit /\ IntegrityInit

Next == BatchNext \/ IntegrityNext

Spec == Init /\ [][Next]_vars

\* One directory batch call on its own.
BatchSpec == Init /\ [][BatchNext]_vars

\* The Go scheduler runs every goroutine that is able to take a step.
FairBatchSpec ==
    /\ BatchSpec
    /\ WF_vars(ListError) /\ WF_vars(ListSpawn) /\ WF_vars(ListEnd)
    /\ WF_vars(Wait) /\ WF_vars(CloseAndReturn)
    /\ \A k \in Keys :
        /\ WF_vars(\E ok \in BOOLEAN : UnitOp(k, ok))
        /\ WF_vars(UnitLock(k))
        /\ WF_vars(UnitAppend(k))
        /\ WF_vars(UnitDone(k))

\* A call of the buffered directory download of download.go.
DownloadSpec == Init /\ [][DownloadNext]_vars

\* The single-object operations on the bucket.
IntegritySpec == Init /\ [][IntegrityNext]_vars

\* Uploads, downloads and removals on the keys of the bucket.
ObjectSpec == Init /\ [][ObjectNext]_vars

\* The keys and local files of the directory calls.
DirectorySpec == Init /\ [][DirectoryNext]_vars

\* The validation of connection details and the lifecycle rules.
AdminSpec == Init /\ [][AdminNext]_vars

\* A caller working on a File it has got, and on a stream of its own.
StreamSpec == Init /\ [][StreamNext]_vars

-----------------------------------------------------------------------------
(* Properties of the directory batch operations *)

\* Keys for which a goroutine was spawned, keys whose operation failed, and
\* goroutines that have not returned yet.
Spawned == {k \in Keys : units[k] # "none"}

FailedKeys == {k \in Keys : units[k] = "sending"} \cup {errCh[i] : i \in 1..Len(errCh)}

Live == {k \in Keys : units[k] \notin {"none", "done"}}

OpsFinished == \A k \in Keys : units[k] # "running"

\* C1 (as claimed): once the listing has been consumed without error and the
\* per-key operations have finished with F >= 1 failures, the call returns a
\* single DownloadingFilesFailedError wrapping exactly F errors.
C1_AggregateReturned ==
    \A F \in (SUBSET Keys) \ {{}} :
        (pc = "wait" /\ OpsFinished /\ FailedKeys = F)
            ~> (/\ pc = "returned"
                /\ ret.kind = "DownloadingFilesFailedError"
                /\ Len(ret.errs) = Cardinality(F))

\* C2 (as claimed): a batch call always terminates: in every state either
\* some goroutine of the call can still take a step, or the call has returned
\* and every goroutine it spawned has terminated.
C2_BatchTerminates ==
    \/ ENABLED BatchNext
    \/ (pc = "returned" /\ Live = {})

\* C3 (as claimed): when the call has returned, whatever it returned, every
\* goroutine it spawned has terminated.
C3_JoinBarrier == pc = "returned" => Live = {}

\* C4: when GetDirectory / GetDirectoryInfos returns after a listing without
\* error and no per-key operation failed, it returns a nil error and a slice
\* holding each listed key exactly once, whatever the order of the appends.
C4_SuccessComplete ==
    (pc = "returned" /\ Collects(op) /\ ret.kind # "listingError" /\ FailedKeys = {})
        => /\ ret.kind = "ok"
           /\ Len(ret.result) = Cardinality(Spawned)
           /\ {ret.result[i] : i \in 1..Len(ret.result)} = Spawned

\* C4 witness: a GetDirectory call returned three files, appended in an order
\* that differs from the listing order.
C4_Witness ==
    /\ pc = "returned" /\ op = "GetDirectory" /\ ret.kind = "ok"
    /\ Len(ret.result) = 3
    /\ ret.result[1] = 3

-----------------------------------------------------------------------------
(* Properties of the single-object operations *)

\* The two checksum kinds, and the parts of clients, options, objects and
\* results that belong to a kind.
Kinds == {"CRC32C", "MD5"}

Other(k) == IF k = "CRC32C" THEN "MD5" ELSE "CRC32C"

EnabledKind(c, k) == IF k = "CRC32C" THEN c.useIntegrityCRC32C ELSE c.useIntegrityMD5

ExpectedOf(getOptions, k) ==
    IF k = "CRC32C" THEN getOptions.ChecksumCRC32C ELSE getOptions.ChecksumMD5

ChecksumOf(info, k) == IF k = "CRC32C" THEN info.ChecksumCRC32C ELSE info.ChecksumMD5

KeyOf(k) == IF k = "CRC32C" THEN keyCR32CChecksum ELSE keyMD5Checksum

DigestOf(content, k) == IF k = "CRC32C" THEN CRC32CHex[content] ELSE MD5Hex[content]

\* The checksum of kind k an object carries under its reserved key ("" when
\* it carries none).
EmbeddedOf(o, k) == MapGet(o.meta, KeyOf(k))

\* The checksum of kind k GetFile works with: the embedded one, or the digest
\* of the content when none is embedded.
EffectiveOf(o, k) == IF EmbeddedOf(o, k) # "" THEN EmbeddedOf(o, k) ELSE DigestOf(o.content, k)

\* C5: GetFile with exactly one non-empty expected checksum, on an object
\* whose embedded checksum of that kind is absent or is the digest of the
\* content (and with no backend failure): the call succeeds when the expected
\* string equals the digest, and otherwise (a difference in case included)
\* returns no File and ErrChecksumMismatch.
C5_MismatchDetected ==
    \A k \in Kinds :
        (/\ res.op = "GetFile" /\ res.fault = "none"
         /\ store[res.path] # NoObject
         /\ ExpectedOf(res.getOptions, k) # ""
         /\ ExpectedOf(res.getOptions, Other(k)) = ""
         /\ EmbeddedOf(store[res.path], k) \in {"", DigestOf(store[res.path].content, k)})
            => IF ExpectedOf(res.getOptions, k) = DigestOf(store[res.path].content, k)
                 THEN res.err = "nil" /\ res.file # NoFile
                 ELSE res.err = "ErrChecksumMismatch" /\ res.file = NoFile

\* C5 witness: the CRC32C of content "a" in upper case was expected of an
\* object without embedded CRC32C, and GetFile returned ErrChecksumMismatch.
C5_Witness ==
    /\ res.op = "GetFile" /\ res.fault = "none"
    /\ store[res.path] # NoObject
    /\ store[res.path].content = <<97>>
    /\ EmbeddedOf(store[res.path], "CRC32C") = ""
    /\ res.getOptions = [ChecksumCRC32C |-> CRC32CUpper[<<97>>], ChecksumMD5 |-> ""]
    /\ CRC32CUpper[<<97>>] # CRC32CHex[<<97>>]
    /\ res.err = "ErrChecksumMismatch"

\* C6 (as claimed): when GetFile succeeds and had a non-empty expected
\* checksum for a kind that is disabled on the client, the returned FileInfo
\* carries that kind's checksum, equal to the expected value.
C6_ExplicitOverridesDisabled ==
    \A k \in Kinds :
        (/\ res.op = "GetFile" /\ res.err = "nil"
         /\ ~EnabledKind(res.client, k)
         /\ ExpectedOf(res.getOptions, k) # "")
            => ChecksumOf(res.file.info, k) = ExpectedOf(res.getOptions, k)

\* C7: for a client with a kind disabled, that kind's checksum is empty in
\* every UploadInfo UploadFile returns and in every FileInfo GetFile returns
\* when no non-empty checksum of that kind was expected.
C7_DisabledKindEmpty ==
    \A k \in Kinds :
        /\ (res.op = "UploadFile" /\ res.err = "nil" /\ ~EnabledKind(res.client, k))
            => ChecksumOf(res.info, k) = ""
        /\ (/\ res.op = "GetFile" /\ res.err = "nil"
            /\ ~EnabledKind(res.client, k)
            /\ ExpectedOf(res.getOptions, k) = "")
            => ChecksumOf(res.file.info, k) = ""

\* C7 witness: a client without CRC32C support got a file whose object
\* carries a CRC32C checksum, and the FileInfo's CRC32C is empty.
C7_Witness ==
    /\ res.op = "GetFile" /\ res.err = "nil"
    /\ ~res.client.useIntegrityCRC32C
    /\ res.getOptions.ChecksumCRC32C = ""
    /\ EmbeddedOf(store[res.path], "CRC32C") # ""
    /\ res.file.info.ChecksumCRC32C = ""

\* C8: a GetFile call with an empty expected checksum of kind k fails with
\* ErrChecksumMismatch only when the other kind's expected checksum is
\* non-empty and differs, and on success reports for kind k what a call
\* without any expectation for k reports: the object's checksum when k is
\* enabled on the client, the empty string otherwise.
C8_EmptyExpectedNoOp ==
    \A k \in Kinds :
        (res.op = "GetFile" /\ ExpectedOf(res.getOptions, k) = "")
            => /\ res.err = "ErrChecksumMismatch"
                    => /\ ExpectedOf(res.getOptions, Other(k)) # ""
                       /\ ExpectedOf(res.getOptions, Other(k)) # EffectiveOf(store[res.path], Other(k))
               /\ res.err = "nil"
                    => ChecksumOf(res.file.info, k) =
                            IF EnabledKind(res.client, k) THEN EffectiveOf(store[res.path], k) ELSE ""

\* C8 witness: no CRC32C was expected of an object that carries a wrong
\* CRC32C, by a client without CRC32C support, and GetFile succeeded.
C8_Witness ==
    /\ res.op = "GetFile" /\ res.err = "nil"
    /\ res.getOptions.ChecksumCRC32C = ""
    /\ ~res.client.useIntegrityCRC32C
    /\ EmbeddedOf(store[res.path], "CRC32C") = Bogus
    /\ res.file.info.ChecksumCRC32C = ""

\* C9: an object stored by UploadFile with kind k enabled and no reserved key
\* in the caller's metadata: the UploadInfo's checksum of kind k is the
\* digest of the uploaded content, and a successful GetFile or GetFileInfo of
\* the path by a client with k enabled reports the same value.
C9_ChecksumRoundTrip ==
    \A p \in Paths, k \in Kinds :
        (/\ store[p] # NoObject
         /\ store[p].origin.by = "UploadFile"
         /\ EnabledKind(store[p].origin.client, k)
         /\ (DOMAIN store[p].origin.MetaData) \cap ReservedKeys = {})
            => /\ ChecksumOf(store[p].origin.info, k) = DigestOf(store[p].origin.data, k)
               /\ (/\ res.op = "GetFile" /\ res.path = p /\ res.err = "nil"
                   /\ EnabledKind(res.client, k))
                    => ChecksumOf(res.file.info, k) = ChecksumOf(store[p].origin.info, k)
               /\ (/\ res.op = "GetFileInfo" /\ res.path = p /\ res.err = "nil"
                   /\ EnabledKind(res.client, k))
                    => ChecksumOf(res.info, k) = ChecksumOf(store[p].origin.info, k)

\* C9 witness: content "a" was uploaded with CRC32C enabled, and a later
\* GetFile by a client with CRC32C enabled reports the CRC32C of "a".
C9_Witness ==
    /\ res.op = "GetFile" /\ res.err = "nil" /\ res.client.useIntegrityCRC32C
    /\ store[res.path].origin.by = "UploadFile"
    /\ store[res.path].origin.client.useIntegrityCRC32C
    /\ store[res.path].origin.data = <<97>>
    /\ store[res.path].origin.MetaData = EmptyMap
    /\ res.file.info.ChecksumCRC32C = CRC32CHex[<<97>>]

\* C10: the MetaData of the FileInfo GetFile and GetFileInfo return holds
\* neither reserved key, and holds exactly the other stored keys with their
\* values; metadata M without reserved keys that was uploaded through
\* UploadFile (with no further user metadata in the upload options) comes
\* back equal to M.
C10_MetadataHygiene ==
    (res.op \in {"GetFile", "GetFileInfo"} /\ res.err = "nil")
        => LET o == store[res.path]
               md == IF res.op = "GetFile" THEN res.file.info.MetaData ELSE res.info.MetaData
           IN  /\ (DOMAIN md) \cap ReservedKeys = {}
               /\ DOMAIN md = (DOMAIN o.meta) \ ReservedKeys
               /\ \A key \in DOMAIN md : md[key] = o.meta[key]
               /\ (/\ o.origin.by = "UploadFile"
                   /\ (DOMAIN o.origin.MetaData) \cap ReservedKeys = {}
                   /\ o.origin.UserMetadata = EmptyMap)
                    => md = o.origin.MetaData

\* C10 witness: GetFileInfo of an object stored with both reserved keys and
\* a Filename key returned exactly the Filename key.
C10_Witness ==
    /\ res.op = "GetFileInfo" /\ res.err = "nil"
    /\ ReservedKeys \subseteq DOMAIN store[res.path].meta
    /\ "Filename" \in DOMAIN store[res.path].meta
    /\ DOMAIN res.info.MetaData = {"Filename"}
    /\ res.info.MetaData["Filename"] = "a.txt"

-----------------------------------------------------------------------------
(* Properties of the single-object operations *)

\* The not-found sentinel of the package (var ErrNotFound).
ErrNotFound == "ErrNotFound"

\* C11: GetFile and GetFileInfo on a key that does not exist in the bucket
\* return the not-found sentinel (errors.Is(err, ErrNotFound)), which differs
\* from the wrapped error every other backend failure gives.
C11_NotFoundSentinel ==
    (res.op \in {"GetFile", "GetFileInfo"} /\ store[res.path] = NoObject)
        => res.err = ErrNotFound

\* C12 (as claimed): after getCheckSumCRC32C / getCheckSumMD5 has returned
\* successfully, the stream's read position is the one it had before the call,
\* whatever that position was.
C12_StreamPositionRestored ==
    (res.op = "getCheckSum" /\ res.err = "nil") => res.obj.pos = res.before.pos

\* C13 (as claimed): Bytes on an open, readable File returns no error and the
\* complete content of the object (info.Size bytes), however many bytes the
\* underlying stream delivers per Read, and leaves the File closed; on a
\* closed File Bytes and Read return an error and no data.
C13_BytesComplete ==
    /\ (res.op = "Bytes" /\ ~res.before.closed /\ ~res.before.ReadCloser.broken
            /\ res.before.ReadCloser.pos = 0)
            => /\ res.err = "nil"
               /\ Len(res.buf) = res.before.info.Size
               /\ res.buf = res.before.ReadCloser.data
               /\ opened.closed
    /\ (res.op \in {"Bytes", "Read"} /\ res.before.closed)
            => /\ res.err # "nil"
               /\ (IF res.op = "Bytes" THEN res.buf ELSE res.bytes) = <<>>

\* The FileInfo a GetFile / GetFileInfo call has returned.
InfoOf(r) == IF r.op = "GetFile" THEN r.file.info ELSE r.info

\* The object round trip; the content type is compared for every content
\* type t of the Upload, or for a non-empty t only.
RoundTrip(nonEmptyOnly) ==
    /\ (res.op = "UploadFile" /\ res.err = "nil")
            => res.info.Size = Len(store[res.path].origin.data)
    /\ (/\ res.op \in {"GetFile", "GetFileInfo"}
        /\ res.err = "nil"
        /\ store[res.path].origin.by = "UploadFile")
            => /\ InfoOf(res).Size = Len(store[res.path].origin.data)
               /\ InfoOf(res).Name = res.path[Len(res.path)]
               /\ (nonEmptyOnly => store[res.path].origin.ContentType # "")
                    => InfoOf(res).ContentType = store[res.path].origin.ContentType

\* C14 (as claimed): after a successful UploadFile of content c with content
\* type t to path p, UploadInfo.Size = len(c), and GetFile(p) / GetFileInfo(p)
\* return Size = len(c), ContentType = t and Name = the last segment of p,
\* whatever was uploaded to or removed from other paths before.
C14_RoundTripAnyContentType == RoundTrip(FALSE)

\* C14 (amended): the same, with ContentType = t claimed for a non-empty t
\* only; an Upload with an empty content type leaves the content type to the
\* upload options and the backend.
C14_RoundTrip == RoundTrip(TRUE)

C14_Witness ==
    /\ res.op = "GetFile"
    /\ res.err = "nil"
    /\ res.path = <<"dir", "a.txt">>
    /\ store[res.path].origin.by = "UploadFile"
    /\ store[res.path].origin.ContentType = "text/plain"
    /\ Len(store[res.path].origin.data) = 1
    /\ res.file.info.ContentType = "text/plain"
    /\ res.file.info.Name = "a.txt"
    /\ store[<<"b.txt">>] # NoObject

\* C19: a RemoveFile(p) that returns nil leaves no object at p and leaves
\* the object under every other key as it was; a key without an object gets
\* one only by an upload to that key, and until then GetFile and GetFileInfo
\* of it fail.
C19_RemoveFile ==
    [][ /\ (res.op = "none" /\ res'.op = "RemoveFile")
            => /\ res'.err = "nil" => store'[res'.path] = NoObject
               /\ \A q \in Paths \ {res'.path} : store'[q] = store[q]
        /\ \A p \in Paths :
            (store[p] = NoObject /\ store'[p] # NoObject)
                => (res'.op = "UploadFile" /\ res'.path = p)
        /\ (res'.op \in {"GetFile", "GetFileInfo"} /\ store'[res'.path] = NoObject)
            => res'.err # "nil"
      ]_vars

C19_Witness ==
    /\ res.op = "RemoveFile"
    /\ res.err = "nil"
    /\ res.path = <<"dir", "a.txt">>
    /\ store[res.path] = NoObject
    /\ store[<<"b.txt">>] # NoObject

\* C15: GetFileInfo reports, for each kind, the value embedded in the
\* object's metadata when the kind is enabled on the client (empty when none
\* is embedded, never a digest computed from the content) and the empty
\* string when the kind is disabled, and it never fails with
\* ErrChecksumMismatch.
C15_GetFileInfoEmbeddedOnly ==
    res.op = "GetFileInfo"
        => /\ res.err # "ErrChecksumMismatch"
           /\ (store[res.path] # NoObject /\ res.fault = "none") => res.err = "nil"
           /\ res.err = "nil"
                => \A k \in Kinds :
                    ChecksumOf(res.info, k) =
                        IF EnabledKind(res.client, k) THEN EmbeddedOf(store[res.path], k) ELSE ""

C15_Witness ==
    /\ res.op = "GetFileInfo"
    /\ res.err = "nil"
    /\ res.client = [useIntegrityCRC32C |-> TRUE, useIntegrityMD5 |-> TRUE]
    /\ store[res.path].content = <<97>>
    /\ EmbeddedOf(store[res.path], "CRC32C") = Bogus
    /\ EmbeddedOf(store[res.path], "MD5") = ""
    /\ res.info.ChecksumCRC32C = Bogus
    /\ res.info.ChecksumMD5 = ""

\* C16 (as claimed): when the metadata of an Upload contains the reserved key
\* of a kind that is enabled on the client, the value stored with the object
\* under that key is the digest UploadFile computed, the one it returns in
\* UploadInfo.
C16_ReservedValueWins ==
    \A p \in Paths, k \in Kinds :
        (/\ store[p] # NoObject
         /\ store[p].origin.by = "UploadFile"
         /\ EnabledKind(store[p].origin.client, k)
         /\ KeyOf(k) \in DOMAIN store[p].origin.MetaData)
            => /\ EmbeddedOf(store[p], k) = ChecksumOf(store[p].origin.info, k)
               /\ EmbeddedOf(store[p], k) = DigestOf(store[p].content, k)

\* C17 (as claimed): GetFile with a kind enabled, on an object without an
\* embedded checksum of that kind and without an expected checksum for that
\* kind, returns a FileInfo whose checksum of that kind is empty (nothing is
\* computed from the content).
C17_LazyComputation ==
    (res.op = "GetFile" /\ res.err = "nil")
        => \A k \in Kinds :
            (/\ EnabledKind(res.client, k)
             /\ EmbeddedOf(store[res.path], k) = ""
             /\ ExpectedOf(res.getOptions, k) = "")
                => ChecksumOf(res.file.info, k) = ""

-----------------------------------------------------------------------------
(* Properties of the connection details and the lifecycle rules *)

\* The fields of ClientDetails in the order validate looks at them, each with
\* its error.
FieldOrder == <<"Host", "AccessKey", "AccessSecret", "BucketName">>

FieldError ==
    <<"ErrEmptyHost", "ErrEmptyAccessKey", "ErrEmptyAccessSecret", "ErrEmptyBucketName">>

EmptyFields(d) == {i \in DOMAIN FieldOrder : d[FieldOrder[i]] = ""}

\* C18: validate returns the error of the first empty field in the order
\* Host, AccessKey, AccessSecret, BucketName, and nil exactly when none of
\* the four is empty.
C18_Validate ==
    res.op = "validate"
        => /\ res.err = "nil" <=> EmptyFields(res.details) = {}
           /\ \A i \in EmptyFields(res.details) :
                (\A j \in EmptyFields(res.details) : i <= j) => res.err = FieldError[i]

C18_Witness ==
    /\ res.op = "validate"
    /\ res.details = [Host |-> "x", AccessKey |-> "", AccessSecret |-> "x", BucketName |-> ""]
    /\ res.err = "ErrEmptyAccessKey"

\* C20 (as claimed): after a successful AddLifeCycleRule(ruleID, folderPath,
\* days) the lifecycle configuration holds an enabled rule with that ID, that
\* expiry and the prefix folderPath ending in "/" (appended only when
\* missing), and still holds every rule an earlier call registered under
\* another ID.
C20_RuleAdded ==
    [][ (res.op = "none" /\ res'.op = "AddLifeCycleRule" /\ res'.err = "nil")
            => /\ \E i \in DOMAIN lifecycle' :
                    /\ lifecycle'[i].ID = res'.ruleID
                    /\ lifecycle'[i].Status = "Enabled"
                    /\ lifecycle'[i].Expiration.Days = res'.daysToExpiry
                    /\ lifecycle'[i].Prefix \in {res'.folderPath, res'.folderPath \o <<"">>}
                    /\ lifecycle'[i].Prefix[Len(lifecycle'[i].Prefix)] = ""
                    /\ lifecycle'[i].Prefix[Len(lifecycle'[i].Prefix) - 1] # ""
               /\ \A j \in DOMAIN lifecycle :
                    lifecycle[j].ID # res'.ruleID
                        => \E i \in DOMAIN lifecycle' : lifecycle'[i] = lifecycle[j]
      ]_vars

-----------------------------------------------------------------------------
(* Properties of the checksum functions *)

\* C21: GenerateCheckSumCRC32C and GenerateCheckSumMD5 depend on nothing but
\* the bytes the reader delivers: they return no error for a readable reader,
\* two computations over equal byte sequences return equal hex strings, and
\* the content "asdfqweryxcv" has CRC32C "4748d6bb" and MD5
\* "443217297805b7b46584cea3c26980f0".
C21_ChecksumDeterminism ==
    res.op = "GenerateCheckSum"
        => /\ \A r \in {res.first, res.second} :
                ~r.before.broken
                    => /\ r.err = "nil"
                       /\ r.sum # ""
                       /\ Remaining(r.before) = TestContent
                            => r.sum = (IF res.kind = "CRC32C" THEN "4748d6bb"
                                        ELSE "443217297805b7b46584cea3c26980f0")
           /\ (/\ ~res.first.before.broken
               /\ ~res.second.before.broken
               /\ Remaining(res.first.before) = Remaining(res.second.before))
                => res.first.sum = res.second.sum

C21_Witness ==
    /\ res.op = "GenerateCheckSum"
    /\ res.kind = "CRC32C"
    /\ res.first.before = Stream(<<97>>, 1, FALSE)
    /\ res.second.before = Stream(<<>>, 0, FALSE)
    /\ res.first.err = "nil"
    /\ res.first.sum = "00000000"
    /\ res.second.sum = "00000000"

-----------------------------------------------------------------------------
(* Further properties of the directory batch operations *)

\* C22 (as claimed): no per-key operation is started before the listing has
\* been consumed to its end, and a call that returns the listing error has
\* started none.
C22_ListingBeforeFanOut ==
    /\ Spawned # {} => objectCh = <<>>
    /\ ret.kind = "listingError" => Spawned = {}

\* C25 (as claimed): a call whose context was cancelled while it was in
\* progress returns an error, and returns only when every unit it spawned has
\* returned.
C25_CancelKeepsJoinBarrier ==
    (cancelled /\ pc = "returned")
        => /\ Live = {}
           /\ ret.kind \in {"listingError", "DownloadingFilesFailedError"}

\* C27: in a call whose listing completes without error the per-key operation
\* of every listed key is invoked exactly once and returns, whichever other
\* operations fail: no unit is left out or given up, none is invoked twice,
\* and every invoked operation comes to its end.
C27_NoFailFastNoRetry ==
    /\ [](\A k \in Keys :
            /\ calls[k] <= 1
            /\ units[k] \notin {"none", "running"} => calls[k] = 1
            /\ pc = "wait" => (k \in listed <=> units[k] # "none"))
    /\ (pc = "wait") ~> (\A k \in listed : calls[k] = 1)

\* C27 witness: three keys listed; the operation of key 1 failed (its unit is
\* in the send on errCh), those of keys 2 and 3 were invoked and returned all
\* the same.
C27_Witness ==
    /\ pc = "wait"
    /\ listed = {1, 2, 3}
    /\ units[1] = "sending"
    /\ units[2] = "done"
    /\ units[3] = "done"
    /\ \A k \in listed : calls[k] = 1

-----------------------------------------------------------------------------
(* Further properties of the single-object operations *)

\* The digests the embedded checksums of object o claim are the digests of its
\* content (or o carries none).
Truthful(o) == \A k \in Kinds : EffectiveOf(o, k) = DigestOf(o.content, k)

\* C23 (as claimed): GetFile with non-empty expected checksums of both kinds
\* fails with ErrChecksumMismatch when at least one of them differs from the
\* object's digest of that kind, and succeeds only when both are equal to it.
C23_TwoKindVerification ==
    (/\ res.op = "GetFile"
     /\ res.fault = "none"
     /\ store[res.path] # NoObject
     /\ Truthful(store[res.path])
     /\ \A k \in Kinds : ExpectedOf(res.getOptions, k) # "")
        => IF \A k \in Kinds :
                ExpectedOf(res.getOptions, k) = DigestOf(store[res.path].content, k)
           THEN res.err = "nil"
           ELSE res.err = "ErrChecksumMismatch"

\* C24 (as claimed): a GetFile call that returns an error leaves no open
\* stream (the stream GetObject returned has been closed); a successful call
\* hands exactly one open stream to its caller.
C24_StreamClosedOnError ==
    res.op = "GetFile"
        => /\ res.err # "nil" => res.object \in {"none", "closed"}
           /\ res.err = "nil" => (res.object = "open" /\ res.file # NoFile)

\* C26 (as claimed): a GetFile call with a non-empty expected checksum (of one
\* kind) succeeds only if the expected value is the digest of the content the
\* backend returns for the object, whatever checksum the object's metadata
\* carries.
C26_VerifiedAgainstContent ==
    (res.op = "GetFile" /\ res.err = "nil")
        => \A k \in Kinds :
            (ExpectedOf(res.getOptions, k) # "" /\ ExpectedOf(res.getOptions, Other(k)) = "")
                => ExpectedOf(res.getOptions, k) = DigestOf(store[res.path].content, k)

\* C28: when the upload's stream fails while UploadFile computes the checksum
\* of an enabled kind, UploadFile returns an error, does not call PutObject
\* and leaves the bucket as it was.
C28_ChecksumFailureAborts ==
    [][ (/\ res.op = "none"
         /\ res'.op = "UploadFile"
         /\ res'.fault = "stream"
         /\ \E k \in Kinds : EnabledKind(res'.client, k))
            => /\ res'.err = "io"
               /\ ~res'.putInvoked
               /\ store' = store
      ]_vars

C28_Witness ==
    /\ res.op = "UploadFile"
    /\ res.fault = "stream"
    /\ res.client = [useIntegrityCRC32C |-> FALSE, useIntegrityMD5 |-> TRUE]
    /\ res.err = "io"
    /\ ~res.putInvoked
    /\ store[res.path] # NoObject
    /\ store[res.path].origin.by = "UploadFile"

-----------------------------------------------------------------------------
(* Properties of the keys and local files of the directory calls *)

\* strings.HasSuffix(path, "/")
EndsWithSlash(path) == Len(path) > 0 /\ path[Len(path)] = "/"

\* The queried prefix with its separator: the path followed by "/" unless it
\* ends with one.
Folder(path) == IF EndsWithSlash(path) THEN path ELSE path \o Slash

\* C29 (as claimed): for every queried path, with or without a trailing "/",
\* DownloadDirectory downloads each listed key k of the folder to
\* localPath + "/" + r, r being k without the queried prefix and its
\* separator.
C29_LocalDestination ==
    res.op = "DownloadDirectory"
        => \A d \in res.files :
            HasPrefix(d.key, Folder(res.path))
                => d.file = res.localPath \o Slash
                                \o SubSeq(d.key, Len(Folder(res.path)) + 1, Len(d.key))

\* C30 (as claimed): every key a directory call on path (given without a
\* trailing "/") works on is path followed by "/" and a remainder; keys of a
\* sibling folder whose name begins with path are not among them.
C30_FolderScoping ==
    (res.op \in BatchOps /\ ~EndsWithSlash(res.path))
        => \A k \in res.keys :
            /\ Len(k) > Len(res.path) + 1
            /\ SubSeq(k, 1, Len(res.path) + 1) = res.path \o Slash

-----------------------------------------------------------------------------
(* Further properties of the directory batch operations *)

\* The units between mtx.Lock() and mtx.Unlock().
Appending == {k \in Keys : units[k] = "appending"}

\* C31: in GetDirectory and GetDirectoryInfos at most one unit at a time
\* executes the append to the shared result slice, the mutex is held by
\* exactly the unit that appends, and no unit holds it while its backend call
\* is running or while it sends on the error channel.
C31_AccumulatorMutex ==
    /\ Cardinality(Appending) <= 1
    /\ \A k \in Keys : mtx = k <=> k \in Appending
    /\ \A k \in Keys : units[k] \in {"running", "sending"} => mtx # k
    /\ Appending # {} => Collects(op)

\* C31 witness: one unit appends while a second waits for the mutex, a third
\* is blocked in its send on the error channel and none of them holds the
\* mutex but the first.
C31_Witness ==
    /\ Collects(op)
    /\ \E k, j, i \in Keys :
        /\ units[k] = "appending" /\ mtx = k
        /\ units[j] = "locking"
        /\ units[i] = "sending"

-----------------------------------------------------------------------------
(* Properties of the client's construction and shutdown *)

\* The client was built with a health check: NewClient succeeded and left a
\* cancel function in the client.
Constructed == health.client = "open"

\* C32 (as claimed): a client built with WithHealthCheck has its cancel
\* function invoked exactly once, at Close, however many times Close is
\* called; without a health check Close changes nothing.
C32_CancelInvokedOnce ==
    Constructed
        => /\ health.cancelFunc
                => health.cancels = (IF health.closes = 0 THEN 0 ELSE 1)
           /\ ~health.cancelFunc => (health.cancels = 0 /\ ~health.running)

\* C32 (amended): every Close of a client built with WithHealthCheck invokes
\* the cancel function, so it is invoked once per Close; the task runs until
\* the first Close and never after it.  Without a health check no task runs
\* and Close invokes nothing.
C32_TornDownAtClose ==
    Constructed
        => /\ health.cancelFunc
                => /\ health.cancels = health.closes
                   /\ health.running <=> health.closes = 0
           /\ ~health.cancelFunc => (health.cancels = 0 /\ ~health.running)

\* C32 witness: a client built with WithHealthCheck has been closed twice.
C32_Witness ==
    /\ Constructed /\ health.cancelFunc
    /\ health.closes = 2 /\ health.cancels = 2 /\ ~health.running

\* C37 (as claimed): whenever NewClient has returned an error, no health-check
\* task started during that call is running.
C37_FailedConstructionStopsTask ==
    health.client = "failed" => ~health.running

-----------------------------------------------------------------------------
(* Properties of the buffered download *)

\* C33 (as claimed): DownloadFileWithOptions returns ErrNotFound only when the
\* backend reported that the key does not exist; every other failure of the
\* backend, an access-denied response among them, is returned as a wrapped
\* generic error.
C33_NotFoundClassification ==
    res.op = "DownloadFileWithOptions"
        => /\ res.err = ErrNotFound => res.backend = "NoSuchKey"
           /\ res.backend \in {"AccessDenied", "io"} => res.err = "wrapped"

-----------------------------------------------------------------------------
(* Further properties of UploadFile *)

\* C34: after a successful UploadFile with at least one kind enabled, each
\* checksum of an enabled kind in the UploadInfo is the digest of the bytes
\* PutObject read from the stream and stored, whatever the stream's read
\* position was before the call, and also with both kinds enabled.
C34_ChecksumCoversStoredBytes ==
    (res.op = "UploadFile" /\ res.err = "nil")
        => \A k \in Kinds :
            EnabledKind(res.client, k)
                => ChecksumOf(res.info, k) = DigestOf(store[res.path].content, k)

\* C34 witness: an upload with both kinds enabled, from a stream that had
\* been read to its end before the call, stored a non-empty content.
C34_Witness ==
    /\ res.op = "UploadFile" /\ res.err = "nil"
    /\ res.client.useIntegrityCRC32C /\ res.client.useIntegrityMD5
    /\ res.pos > 0
    /\ store[res.path].content # <<>>
    /\ res.info.ChecksumCRC32C = CRC32CHex[store[res.path].content]
    /\ res.info.ChecksumMD5 = MD5Hex[store[res.path].content]

\* C38 (as claimed): the Upload's metadata map and the UserMetadata map of the
\* ClientUploadOptions the caller passed hold the same entries after
\* UploadFile has returned, successfully or not, as before the call.
C38_CallerMapsUnchanged ==
    res.op = "UploadFile" => res.after = res.before

-----------------------------------------------------------------------------
(* Further properties of the local files of DownloadDirectory *)

\* C35 (as claimed): within one DownloadDirectory call two distinct listed
\* keys are never downloaded to the same local file.
C35_NoLocalWriteConflict ==
    res.op = "DownloadDirectory"
        => \A a, b \in res.files : a.key # b.key => a.file # b.file

-----------------------------------------------------------------------------
(* Properties of the buffered directory download *)

\* C36 (as claimed): when DownloadDirectoryWithOptions returns after a listing
\* of K keys without error and all K downloads succeeded, it returns exactly
\* K files, one per key, whatever the interleaving of the goroutines that
\* append to the shared result slice.
C36_UnguardedAppendComplete ==
    (/\ pc = "returned" /\ Unguarded(op)
     /\ ret.kind # "listingError" /\ FailedKeys = {})
        => /\ ret.kind = "ok"
           /\ Len(ret.result) = Cardinality(Spawned)
           /\ {ret.result[i] : i \in 1..Len(ret.result)} = Spawned

=============================================================================
